---- MODULE Spec2Model ----
(***************************************************************************)
(* PhysicsHub shared physics toolkit: PhysicsBody, Spring, ForceCalculator, *)
(* DragController, InclinedPlaneBody, the Utils conversions and the draw   *)
(* loops of the simulations that use them.                                 *)
(*                                                                         *)
(* JavaScript numbers are modelled as exact rationals <<n, d>> in lowest   *)
(* terms with d > 0; every arithmetic operator below computes the exact    *)
(* result of the corresponding JavaScript expression.  p5.Vector values    *)
(* are records [x, y] of rationals.                                        *)
(***************************************************************************)
EXTENDS Integers, Sequences, FiniteSets, TLC

VARIABLES bodies, drag, inputs, scene, canvas, obs, frames

vars == <<bodies, drag, inputs, scene, canvas, obs, frames>>

(***************************************************************************)
(* Bounds of the model.                                                    *)
(***************************************************************************)
\* Longest run of operations / draw frames explored in one behaviour.
MaxFrames == 3

(***************************************************************************)
(* Exact rational arithmetic (JavaScript number).                          *)
(***************************************************************************)
Abs(i) == IF i < 0 THEN -i ELSE i

RECURSIVE GCD(_, _)
GCD(a, b) == IF b = 0 THEN a ELSE GCD(b, a % b)

Q(n, d) ==
    LET g == GCD(Abs(n), Abs(d))
        s == IF d < 0 THEN -1 ELSE 1
    IN  <<(s * n) \div g, (s * d) \div g>>

I(n) == <<n, 1>>
Zero == I(0)
One == I(1)

\* sums and products reduce by the common factors first, to stay in range
RAdd(a, b) ==
    LET g == GCD(a[2], b[2])
    IN  Q(a[1] * (b[2] \div g) + b[1] * (a[2] \div g), (a[2] \div g) * b[2])
RNeg(a) == <<-a[1], a[2]>>
RSub(a, b) == RAdd(a, RNeg(b))
RMul(a, b) ==
    LET g1 == GCD(Abs(a[1]), b[2])
        g2 == GCD(Abs(b[1]), a[2])
    IN  <<(a[1] \div g1) * (b[1] \div g2), (a[2] \div g2) * (b[2] \div g1)>>
\* a / b, for b # 0
RDiv(a, b) == RMul(a, Q(b[2], b[1]))
\* Comparison by continued-fraction expansion (no cross products, so the
\* 0.001 / 0.0001 thresholds of the code compare exactly without overflow).
RECURSIVE PosCmp(_, _, _, _)
PosCmp(n1, d1, n2, d2) ==
    LET q1 == n1 \div d1
        q2 == n2 \div d2
        r1 == n1 % d1
        r2 == n2 % d2
    IN  IF q1 < q2 THEN -1
        ELSE IF q1 > q2 THEN 1
        ELSE IF r1 = 0 /\ r2 = 0 THEN 0
        ELSE IF r1 = 0 THEN -1
        ELSE IF r2 = 0 THEN 1
        ELSE PosCmp(d2, r2, d1, r1)

RCmp(a, b) ==
    IF a[1] < 0 /\ b[1] >= 0 THEN -1
    ELSE IF a[1] >= 0 /\ b[1] < 0 THEN 1
    ELSE IF a[1] < 0 THEN PosCmp(-b[1], b[2], -a[1], a[2])
    ELSE PosCmp(a[1], a[2], b[1], b[2])

RLt(a, b) == RCmp(a, b) < 0
RLe(a, b) == RCmp(a, b) <= 0
RGt(a, b) == RCmp(a, b) > 0
RGe(a, b) == RCmp(a, b) >= 0
\* Math.abs, Math.sign, Math.max
RAbs(a) == <<Abs(a[1]), a[2]>>
RSign(a) == IF a[1] > 0 THEN One ELSE IF a[1] < 0 THEN RNeg(One) ELSE Zero
RMax(a, b) == IF RLt(a, b) THEN b ELSE a
RMin(a, b) == IF RLe(a, b) THEN a ELSE b

\* Integer square root by bisection: the largest r in lo..hi with r*r <= n.
RECURSIVE SqrtSearch(_, _, _)
SqrtSearch(n, lo, hi) ==
    IF lo >= hi THEN lo
    ELSE LET mid == (lo + hi + 1) \div 2
         IN  IF mid * mid <= n THEN SqrtSearch(n, mid, hi)
             ELSE SqrtSearch(n, lo, mid - 1)

ISqrt(n) == SqrtSearch(n, 0, IF n < 46340 THEN n ELSE 46340)
IsSquare(n) == n >= 0 /\ ISqrt(n) * ISqrt(n) = n
\* Math.sqrt on the rationals whose root is rational.
HasRSqrt(a) == IsSquare(a[1]) /\ IsSquare(a[2])
RSqrt(a) == <<ISqrt(a[1]), ISqrt(a[2])>>

(***************************************************************************)
(* p5.Vector                                                               *)
(***************************************************************************)
Vec(x, y) == [x |-> x, y |-> y]
VZero == Vec(Zero, Zero)
VAdd(u, v) == Vec(RAdd(u.x, v.x), RAdd(u.y, v.y))
VSub(u, v) == Vec(RSub(u.x, v.x), RSub(u.y, v.y))
VMult(u, s) == Vec(RMul(u.x, s), RMul(u.y, s))
\* p5.Vector.div leaves the vector unchanged (and warns) when dividing by 0
VDiv(u, s) == IF s = Zero THEN u ELSE Vec(RDiv(u.x, s), RDiv(u.y, s))
VDot(u, v) == RAdd(RMul(u.x, v.x), RMul(u.y, v.y))
VMagSq(u) == VDot(u, u)
\* Math.sqrt(x*x + y*y); an axis-aligned vector has the length of its
\* non-zero component
VMag(u) ==
    IF u.x = Zero THEN RAbs(u.y)
    ELSE IF u.y = Zero THEN RAbs(u.x)
    ELSE RSqrt(VMagSq(u))
HasMag(u) == u.x = Zero \/ u.y = Zero \/ HasRSqrt(VMagSq(u))
\* p5.Vector.normalize: a zero vector stays zero
VNormalize(u) == IF VMag(u) = Zero THEN u ELSE VDiv(u, VMag(u))
VDist(u, v) == VMag(VSub(u, v))
\* v.mag() > r and v.mag() < r for r >= 0, decided on the squares
VMagGt(u, r) ==
    IF u.x = Zero \/ u.y = Zero THEN RGt(VMag(u), r)
    ELSE RGt(VMagSq(u), RMul(r, r))
VMagLt(u, r) ==
    IF u.x = Zero \/ u.y = Zero THEN RLt(VMag(u), r)
    ELSE RLt(VMagSq(u), RMul(r, r))

(***************************************************************************)
(* PhysicsBody (app/(core)/physics/PhysicsBody.js)                         *)
(***************************************************************************)
MovingEps == Q(1, 1000)

computeBounds(b) ==
    IF b.shape = "circle"
    THEN [type |-> "circle", center |-> b.position,
          radius |-> RDiv(b.size, I(2))]
    ELSE [type |-> "rect",
          min |-> Vec(RSub(b.position.x, RDiv(b.size, I(2))),
                      RSub(b.position.y, RDiv(b.size, I(2)))),
          max |-> Vec(RAdd(b.position.x, RDiv(b.size, I(2))),
                      RAdd(b.position.y, RDiv(b.size, I(2))))]

\* new PhysicsBody(p, params): state vectors default to (0,0), trail off
PhysicsBody(mass, size, restitution, shape, position, velocity) ==
    LET b0 == [mass |-> mass, size |-> size, restitution |-> restitution,
               shape |-> shape,
               position |-> position, velocity |-> velocity,
               acceleration |-> VZero,
               rotation |-> Zero, angularVelocity |-> Zero,
               angularAcceleration |-> Zero,
               isMoving |-> FALSE,
               trail |-> [enabled |-> FALSE, points |-> <<>>, maxLength |-> 100]]
    IN  [f \in DOMAIN b0 \cup {"bounds"} |->
            IF f = "bounds" THEN computeBounds(b0) ELSE b0[f]]

applyForce(b, force) ==
    [b EXCEPT !.acceleration = VAdd(@, VDiv(force, b.mass))]

\* applyImpulse that adds the impulse itself to the velocity
applyImpulseAsVelocity(b, impulse) ==
    [b EXCEPT !.velocity = VAdd(@, impulse)]

applyImpulse(b, impulse) ==
    [b EXCEPT !.velocity = VAdd(@, VDiv(impulse, b.mass))]

\* updateTrail that never drops a point
updateTrailUnbounded(b) ==
    [b EXCEPT !.trail.points = Append(@, b.position)]

updateTrail(b) ==
    LET pts == Append(b.trail.points, b.position)
    IN  [b EXCEPT !.trail.points =
            IF Len(pts) > b.trail.maxLength THEN Tail(pts) ELSE pts]

clearTrail(b) == [b EXCEPT !.trail.points = <<>>]

\* step that clears the accumulated forces before looking at dt
stepClearsForces(b, dt) ==
    IF RLe(dt, Zero) THEN [b EXCEPT !.acceleration = VZero]
    ELSE
      LET v1 == VAdd(b.velocity, VMult(b.acceleration, dt))
          b1 == [b EXCEPT !.velocity = v1,
                          !.position = VAdd(@, VMult(v1, dt)),
                          !.angularVelocity =
                              RAdd(@, RMul(b.angularAcceleration, dt)),
                          !.rotation =
                              RAdd(@, RMul(RAdd(b.angularVelocity,
                                                RMul(b.angularAcceleration, dt)), dt)),
                          !.acceleration = VZero,
                          !.angularAcceleration = Zero,
                          !.isMoving = VMagGt(v1, MovingEps)]
          b2 == [b1 EXCEPT !.bounds = computeBounds(b1)]
      IN  IF b2.trail.enabled THEN updateTrail(b2) ELSE b2

\* step with the position advanced by the velocity of the previous frame
stepOldVelocity(b, dt) ==
    IF RLe(dt, Zero) THEN b
    ELSE
      LET v1 == VAdd(b.velocity, VMult(b.acceleration, dt))
          b1 == [b EXCEPT !.velocity = v1,
                          !.position = VAdd(@, VMult(b.velocity, dt)),
                          !.acceleration = VZero,
                          !.angularAcceleration = Zero,
                          !.isMoving = VMagGt(v1, MovingEps)]
      IN  [b1 EXCEPT !.bounds = computeBounds(b1)]

step(b, dt) ==
    IF RLe(dt, Zero) THEN b
    ELSE
      LET v1 == VAdd(b.velocity, VMult(b.acceleration, dt))
          p1 == VAdd(b.position, VMult(v1, dt))
          w1 == RAdd(b.angularVelocity, RMul(b.angularAcceleration, dt))
          b1 == [b EXCEPT !.velocity = v1,
                          !.position = p1,
                          !.angularVelocity = w1,
                          !.rotation = RAdd(@, RMul(w1, dt)),
                          !.acceleration = VZero,
                          !.angularAcceleration = Zero,
                          !.isMoving = VMagGt(v1, MovingEps)]
          b2 == [b1 EXCEPT !.bounds = computeBounds(b1)]
      IN  IF b2.trail.enabled THEN updateTrail(b2) ELSE b2

\* stepVerlet(dt, previousPosition): previousPosition is <<>> when it is
\* not given, <<v>> otherwise; [body |-> the body afterwards, ret |-> the
\* value returned, <<>> for undefined]
stepVerlet(b, dt, previousPosition) ==
    IF RLe(dt, Zero) THEN [body |-> b, ret |-> <<>>]
    ELSE
      LET currentPos == b.position
          prevPos == IF previousPosition = <<>> THEN b.position
                     ELSE previousPosition[1]
          displacement == VSub(currentPos, prevPos)
          accelerationTerm == VMult(b.acceleration, RMul(dt, dt))
          p1 == VAdd(VAdd(b.position, displacement), accelerationTerm)
          v1 == VDiv(VSub(p1, currentPos), dt)
          b1 == [b EXCEPT !.position = p1,
                          !.velocity = v1,
                          !.acceleration = VZero,
                          !.isMoving = VMagGt(v1, MovingEps)]
          b2 == [b1 EXCEPT !.bounds = computeBounds(b1)]
      IN  [body |-> IF b2.trail.enabled THEN updateTrail(b2) ELSE b2,
           ret |-> <<currentPos>>]

\* reset(initialState): initialState is a record with some of the fields
\* position, velocity, acceleration
reset(b, initialState) ==
    LET b1 == [b EXCEPT
                 !.position = IF "position" \in DOMAIN initialState
                              THEN initialState.position ELSE VZero,
                 !.velocity = IF "velocity" \in DOMAIN initialState
                              THEN initialState.velocity ELSE VZero,
                 !.acceleration = IF "acceleration" \in DOMAIN initialState
                                  THEN initialState.acceleration ELSE VZero,
                 !.rotation = Zero,
                 !.angularVelocity = Zero,
                 !.angularAcceleration = Zero,
                 !.isMoving = FALSE,
                 !.trail.points = <<>>]
    IN  [b1 EXCEPT !.bounds = computeBounds(b1)]

\* constrainAxis that reflects at the lower bound only
constrainAxisLowerOnly(pos, vel, lo, hi, restitution) ==
    IF RLt(pos, lo) THEN <<lo, RMul(vel, RNeg(restitution)), TRUE>>
    ELSE IF RGt(pos, hi) THEN <<hi, vel, TRUE>>
    ELSE <<pos, vel, FALSE>>

\* One axis of constrainToBounds: <<position, velocity, collided>>
constrainAxis(pos, vel, lo, hi, restitution) ==
    IF RLt(pos, lo) THEN <<lo, RMul(vel, RNeg(restitution)), TRUE>>
    ELSE IF RGt(pos, hi) THEN <<hi, RMul(vel, RNeg(restitution)), TRUE>>
    ELSE <<pos, vel, FALSE>>

\* constrainToBounds: [body |-> the body afterwards, ret |-> collided]
constrainToBounds(b, minX, maxX, minY, maxY) ==
    LET cx == constrainAxis(b.position.x, b.velocity.x, minX, maxX, b.restitution)
        cy == constrainAxis(b.position.y, b.velocity.y, minY, maxY, b.restitution)
    IN  [body |-> [b EXCEPT !.position = Vec(cx[1], cy[1]),
                            !.velocity = Vec(cx[2], cy[2])],
         ret |-> cx[3] \/ cy[3]]

updateParams(b, mass, size, restitution) ==
    LET b1 == [b EXCEPT !.mass = mass, !.size = size, !.restitution = restitution]
    IN  [b1 EXCEPT !.bounds = computeBounds(b1)]

(***************************************************************************)
(* PhysicsBody driven through its public methods                           *)
(***************************************************************************)
BodyMasses == {I(1), I(2)}
BodyRestitutions == {Zero, Q(1, 2)}
BodyPositions == {Vec(I(1), I(1)), Vec(I(5), I(-1))}
BodyVelocities == {Vec(I(2), I(-3)), VZero}
BodyForces == {Vec(Zero, I(-2)), Vec(I(3), Zero), Vec(I(1), I(1))}
BodyDts == {Zero, Q(1, 2), One}
\* <<minX, maxX, minY, maxY>> with minX <= maxX and minY <= maxY
BodyBoxes == {<<Zero, I(4), Zero, I(2)>>, <<I(2), I(2), I(-2), I(3)>>}

NoDrag == [active |-> FALSE, targetBody |-> 0, offset |-> VZero,
           initialPosition |-> <<>>, snapBack |-> FALSE, smoothing |-> Zero]

\* the multiset of forces passed to applyForce since the last effective step
NoForces == [f \in BodyForces |-> 0]

RECURSIVE SumForces(_, _)
SumForces(S, bag) ==
    IF S = {} THEN VZero
    ELSE LET f == CHOOSE g \in S : TRUE
         IN  VAdd(VMult(f, I(bag[f])), SumForces(S \ {f}, bag))

BodyInit ==
    /\ \E m \in BodyMasses, r \in BodyRestitutions, pos \in BodyPositions,
          vel \in BodyVelocities, aa \in {Zero, One} :
          bodies = <<[PhysicsBody(m, One, r, "circle", pos, vel)
                        EXCEPT !.angularAcceleration = aa]>>
    /\ drag = NoDrag
    /\ inputs = [none |-> TRUE]
    /\ scene = [name |-> "PhysicsBody"]
    /\ canvas = [height |-> I(600)]
    /\ obs = [op |-> "new", applied |-> NoForces]
    /\ frames = 0

BodyApplyForce ==
    /\ frames < MaxFrames
    /\ \E f \in BodyForces :
          /\ bodies' = <<applyForce(bodies[1], f)>>
          /\ obs' = [op |-> "applyForce", force |-> f,
                     applied |-> [obs.applied EXCEPT ![f] = @ + 1]]
    /\ frames' = frames + 1
    /\ UNCHANGED <<drag, inputs, scene, canvas>>

BodyStep ==
    /\ frames < MaxFrames
    /\ \E dt \in BodyDts :
          /\ bodies' = <<step(bodies[1], dt)>>
          /\ obs' = [op |-> "step", dt |-> dt, pre |-> bodies[1],
                     used |-> obs.applied,
                     applied |-> IF RGt(dt, Zero) THEN NoForces ELSE obs.applied]
    /\ frames' = frames + 1
    /\ UNCHANGED <<drag, inputs, scene, canvas>>

BodyConstrain ==
    /\ frames < MaxFrames
    /\ \E box \in BodyBoxes :
          LET r == constrainToBounds(bodies[1], box[1], box[2], box[3], box[4])
          IN  /\ bodies' = <<r.body>>
              /\ obs' = [op |-> "constrainToBounds", box |-> box,
                         pre |-> bodies[1], ret |-> r.ret,
                         applied |-> obs.applied]
    /\ frames' = frames + 1
    /\ UNCHANGED <<drag, inputs, scene, canvas>>

BodyNext == BodyApplyForce \/ BodyStep \/ BodyConstrain

SpecBody == BodyInit /\ [][BodyNext]_vars

\* C4: step(dt) with dt > 0 integrates the accumulated forces: with
\* a = (sum of the forces applied since the last step) / mass, velocity
\* becomes v + a*dt, position becomes x + (v + a*dt)*dt, and acceleration
\* and angularAcceleration are zero afterwards; the result depends only on
\* the multiset of applied forces, not on their order.
StepIntegratesForces ==
    (obs.op = "step" /\ RGt(obs.dt, Zero)) =>
        LET b == bodies[1]
            a == VDiv(SumForces(BodyForces, obs.used), obs.pre.mass)
            v1 == VAdd(obs.pre.velocity, VMult(a, obs.dt))
        IN  /\ b.velocity = v1
            /\ b.position = VAdd(obs.pre.position, VMult(v1, obs.dt))
            /\ b.acceleration = VZero
            /\ b.angularAcceleration = Zero

\* two different forces were applied, then a step with dt > 0 moved the body
StepIntegratesForcesWitness ==
    /\ obs.op = "step" /\ RGt(obs.dt, Zero)
    /\ Cardinality({f \in BodyForces : obs.used[f] > 0}) >= 2
    /\ obs.pre.angularAcceleration # Zero
    /\ bodies[1].velocity # obs.pre.velocity

Inside(x, lo, hi) == RLe(lo, x) /\ RLe(x, hi)

\* C7: constrainToBounds with minX <= maxX and minY <= maxY leaves the
\* position inside the box, returns true exactly when the position was
\* outside on some axis, sets an outside axis to the violated bound and
\* multiplies its velocity by -restitution, and leaves an inside axis alone.
ConstrainKeepsInside ==
    obs.op = "constrainToBounds" =>
        LET b == bodies[1]
            pre == obs.pre
            box == obs.box
            outX == ~Inside(pre.position.x, box[1], box[2])
            outY == ~Inside(pre.position.y, box[3], box[4])
        IN  /\ Inside(b.position.x, box[1], box[2])
            /\ Inside(b.position.y, box[3], box[4])
            /\ obs.ret = (outX \/ outY)
            /\ outX => /\ b.position.x =
                             IF RLt(pre.position.x, box[1]) THEN box[1] ELSE box[2]
                       /\ b.velocity.x = RMul(pre.velocity.x, RNeg(pre.restitution))
            /\ outY => /\ b.position.y =
                             IF RLt(pre.position.y, box[3]) THEN box[3] ELSE box[4]
                       /\ b.velocity.y = RMul(pre.velocity.y, RNeg(pre.restitution))
            /\ ~outX => b.position.x = pre.position.x /\ b.velocity.x = pre.velocity.x
            /\ ~outY => b.position.y = pre.position.y /\ b.velocity.y = pre.velocity.y

\* a moving body outside on x and inside on y was bounced back
ConstrainKeepsInsideWitness ==
    /\ obs.op = "constrainToBounds" /\ obs.ret
    /\ ~Inside(obs.pre.position.x, obs.box[1], obs.box[2])
    /\ Inside(obs.pre.position.y, obs.box[3], obs.box[4])
    /\ obs.pre.velocity.x # Zero /\ obs.pre.restitution # Zero
    /\ bodies[1].velocity.x # obs.pre.velocity.x

(***************************************************************************)
(* Utils (app/(core)/constants/Utils.js): unit and coordinate conversions, *)
(* integrate                                                               *)
(***************************************************************************)
\* pixels per meter
SCALE == 100

setCanvasHeight(c, height) == [c EXCEPT !.height = height]
getCanvasHeight(c) == c.height

\* physicsYToScreenY without the meters-to-pixels scaling
physicsYToScreenYUnscaled(c, physicsY) == RSub(c.height, physicsY)

physicsYToScreenY(c, physicsY) == RSub(c.height, RMul(physicsY, I(SCALE)))
screenYToPhysicsY(c, screenY) == RDiv(RSub(c.height, screenY), I(SCALE))
toPixels(meters) == RMul(meters, I(SCALE))
toMeters(pixels) == RDiv(pixels, I(SCALE))
physicsToScreen(c, physicsPos) ==
    Vec(toPixels(physicsPos.x), physicsYToScreenY(c, physicsPos.y))
screenToPhysics(c, screenPos) ==
    Vec(toMeters(screenPos.x), screenYToPhysicsY(c, screenPos.y))

\* integrate that scales vel in place instead of scaling a copy
integrateInPlace(pos, vel, acc, dt) ==
    LET velDt == VMult(vel, dt)
        accDt2 == VMult(acc, RMul(RMul(Q(1, 2), dt), dt))
        newPos == VAdd(VAdd(pos, velDt), accDt2)
        newVel == VAdd(vel, VMult(acc, dt))
    IN  [pos |-> newPos, vel |-> newVel,
         args |-> [pos |-> pos, vel |-> velDt, acc |-> acc]]

\* integrate(pos, vel, acc, dt): the returned vectors and the argument
\* objects as the call leaves them (every mutation is done on a copy)
integrate(pos, vel, acc, dt) ==
    LET velDt == VMult(vel, dt)
        accDt2 == VMult(acc, RMul(RMul(Q(1, 2), dt), dt))
        newPos == VAdd(VAdd(pos, velDt), accDt2)
        accDt == VMult(acc, dt)
        newVel == VAdd(vel, accDt)
    IN  [pos |-> newPos, vel |-> newVel,
         args |-> [pos |-> pos, vel |-> vel, acc |-> acc]]

UtilHeights == {Zero, I(400), I(600), I(750)}
UtilScalars == {I(-3), Zero, Q(1, 4), I(2), I(725)}
UtilVectors == {Vec(x, y) : x \in {Q(1, 4), I(2)}, y \in {I(-3), Zero, I(2)}}
UtilVelocities == {VZero, Vec(I(3), I(-1)), Vec(Q(-1, 2), I(4))}
UtilAccelerations == {VZero, Vec(Zero, Q(-981, 100)), Vec(I(2), I(1))}
UtilDts == {Q(1, 60), Q(1, 2), One}

UtilInit ==
    /\ bodies = <<>>
    /\ drag = NoDrag
    /\ inputs = [none |-> TRUE]
    /\ scene = [name |-> "Utils"]
    /\ canvas = [height |-> I(600)]
    /\ obs = [op |-> "load"]
    /\ frames = 0

UtilSetCanvasHeight ==
    /\ \E h \in UtilHeights :
          /\ canvas' = setCanvasHeight(canvas, h)
          /\ obs' = [op |-> "setCanvasHeight", height |-> h]
    /\ UNCHANGED <<bodies, drag, inputs, scene, frames>>

\* one value and one vector sent through every conversion and back
UtilConvert ==
    /\ \E x \in UtilScalars, v \in UtilVectors :
          obs' = [op |-> "convert", x |-> x, v |-> v,
                  px |-> toPixels(x),
                  m |-> toMeters(x),
                  mOfPx |-> toMeters(toPixels(x)),
                  pxOfM |-> toPixels(toMeters(x)),
                  sy |-> physicsYToScreenY(canvas, x),
                  py |-> screenYToPhysicsY(canvas, x),
                  pyOfSy |-> screenYToPhysicsY(canvas, physicsYToScreenY(canvas, x)),
                  syOfPy |-> physicsYToScreenY(canvas, screenYToPhysicsY(canvas, x)),
                  sv |-> physicsToScreen(canvas, v),
                  pvOfSv |-> screenToPhysics(canvas, physicsToScreen(canvas, v)),
                  svOfPv |-> physicsToScreen(canvas, screenToPhysics(canvas, v))]
    /\ UNCHANGED <<bodies, drag, inputs, scene, canvas, frames>>

UtilIntegrate ==
    /\ \E pos \in UtilVectors, vel \in UtilVelocities, acc \in UtilAccelerations,
          dt \in UtilDts :
          obs' = [op |-> "integrate", pos |-> pos, vel |-> vel, acc |-> acc,
                  dt |-> dt, ret |-> integrate(pos, vel, acc, dt)]
    /\ UNCHANGED <<bodies, drag, inputs, scene, canvas, frames>>

UtilNext == UtilSetCanvasHeight \/ UtilConvert \/ UtilIntegrate

SpecUtils == UtilInit /\ [][UtilNext]_vars

\* C5: integrate(pos, vel, acc, dt) returns pos + vel*dt + 0.5*acc*dt^2 and
\* vel + acc*dt as new vectors and leaves pos, vel and acc unmodified.
IntegrateIsVelocityVerlet ==
    obs.op = "integrate" =>
        LET half == Q(1, 2)
            dt2 == RMul(obs.dt, obs.dt)
        IN  /\ obs.ret.pos.x = RAdd(RAdd(obs.pos.x, RMul(obs.vel.x, obs.dt)),
                                     RMul(RMul(half, obs.acc.x), dt2))
            /\ obs.ret.pos.y = RAdd(RAdd(obs.pos.y, RMul(obs.vel.y, obs.dt)),
                                     RMul(RMul(half, obs.acc.y), dt2))
            /\ obs.ret.vel.x = RAdd(obs.vel.x, RMul(obs.acc.x, obs.dt))
            /\ obs.ret.vel.y = RAdd(obs.vel.y, RMul(obs.acc.y, obs.dt))
            /\ obs.ret.args = [pos |-> obs.pos, vel |-> obs.vel, acc |-> obs.acc]

\* an integrate call that moved both the position and the velocity
IntegrateIsVelocityVerletWitness ==
    /\ obs.op = "integrate"
    /\ obs.ret.pos # obs.pos /\ obs.ret.vel # obs.vel
    /\ obs.acc.x # Zero /\ obs.acc.y # Zero /\ obs.dt # One

\* C6: for a fixed canvas height the conversions are mutual inverses
\* (meters <-> pixels, physics y <-> screen y, physics <-> screen vectors);
\* after setCanvasHeight(h), getCanvasHeight() = h, physics y = 0 maps to
\* screen y = h, and a larger physics y maps to a smaller screen y.
ConversionsAreInverses ==
    /\ obs.op = "convert" =>
          /\ obs.mOfPx = obs.x /\ obs.pxOfM = obs.x
          /\ obs.pyOfSy = obs.x /\ obs.syOfPy = obs.x
          /\ obs.pvOfSv = obs.v /\ obs.svOfPv = obs.v
    /\ obs.op = "setCanvasHeight" =>
          /\ getCanvasHeight(canvas) = obs.height
          /\ physicsYToScreenY(canvas, Zero) = obs.height
          /\ \A y1, y2 \in UtilScalars :
                RLt(y1, y2) =>
                    RGt(physicsYToScreenY(canvas, y1), physicsYToScreenY(canvas, y2))

\* a conversion round trip on a non-default canvas height where the
\* converted values differ from the originals
ConversionsAreInversesWitness ==
    /\ obs.op = "convert"
    /\ canvas.height = I(400)
    /\ obs.px # obs.x /\ obs.sy # obs.x /\ obs.sv # obs.v
    /\ obs.x # Zero

(***************************************************************************)
(* DragController (app/(core)/physics/DragController.js)                   *)
(* A controller is [active, targetBody, offset, initialPosition] plus its  *)
(* config [snapBack, smoothing]; targetBody is an index into bodies, 0 for *)
(* null; initialPosition is <<>> for null.  Every method returns the       *)
(* controller and the bodies as it leaves them, its return value and the   *)
(* callbacks it invoked.                                                   *)
(***************************************************************************)
DragController(snapBack, smoothing) ==
    [active |-> FALSE, targetBody |-> 0, offset |-> VZero,
     initialPosition |-> <<>>, snapBack |-> snapBack, smoothing |-> smoothing]

toScreenPosition(c, b) == physicsToScreen(c, b.position)

\* PhysicsBody.checkHover(p, screenPos), p.dist compared on the squares
checkHover(b, screenPos, mouse) ==
    LET sizePx == toPixels(b.size)
        half == RDiv(sizePx, I(2))
    IN  IF b.shape = "circle"
        THEN RLe(VMagSq(VSub(screenPos, mouse)), RMul(half, half))
        ELSE /\ RGe(mouse.x, RSub(screenPos.x, half))
             /\ RLe(mouse.x, RAdd(screenPos.x, half))
             /\ RGe(mouse.y, RSub(screenPos.y, half))
             /\ RLe(mouse.y, RAdd(screenPos.y, half))

\* the end of startDrag: the velocity is zeroed, and velAlongPlane too when
\* the body has a planeState
zeroVelocity(body) ==
    IF "planeState" \in DOMAIN body
    THEN [body EXCEPT !.velocity = VZero, !.planeState.velAlongPlane = Zero]
    ELSE [body EXCEPT !.velocity = VZero]

startDrag(d, bs, i, mouse, c) ==
    LET body == bs[i]
        screenPos == toScreenPosition(c, body)
    IN  [drag |-> [d EXCEPT !.active = TRUE,
                            !.targetBody = i,
                            !.initialPosition =
                                IF d.snapBack THEN body.position ELSE @,
                            !.offset = VSub(screenPos, mouse)],
         bodies |-> [bs EXCEPT ![i] = zeroVelocity(body)],
         ret |-> "undefined", calls |-> <<>>]

\* the hit test that handlePress has commented out
isHitByHover(body, mouse, c) == checkHover(body, toScreenPosition(c, body), mouse)

\* the hit test of handlePress: `let isHit = false`, never set afterwards
isHit(body, mouse, c) == FALSE

RECURSIVE handlePressFrom(_, _, _, _, _, _)
handlePressFrom(d, bs, targets, k, mouse, c) ==
    IF k > Len(targets)
    THEN [drag |-> d, bodies |-> bs, ret |-> FALSE, calls |-> <<>>]
    ELSE IF isHit(bs[targets[k]], mouse, c)
         THEN [startDrag(d, bs, targets[k], mouse, c) EXCEPT !.ret = TRUE]
         ELSE handlePressFrom(d, bs, targets, k + 1, mouse, c)

\* handlePress(p, bodies): targets lists the bodies passed, in order (a
\* single body is wrapped in a one-element array)
handlePress(d, bs, targets, mouse, c) == handlePressFrom(d, bs, targets, 1, mouse, c)

handleDrag(d, bs, mouse, c) ==
    IF ~d.active \/ d.targetBody = 0
    THEN [drag |-> d, bodies |-> bs, ret |-> "undefined", calls |-> <<>>]
    ELSE
      LET body == bs[d.targetBody]
          targetXMeters == toMeters(RAdd(mouse.x, d.offset.x))
          targetYMeters == screenYToPhysicsY(c, RAdd(mouse.y, d.offset.y))
          newPos ==
            IF RGt(d.smoothing, Zero)
            THEN Vec(RAdd(body.position.x,
                          RMul(RSub(targetXMeters, body.position.x), d.smoothing)),
                     RAdd(body.position.y,
                          RMul(RSub(targetYMeters, body.position.y), d.smoothing)))
            ELSE Vec(targetXMeters, targetYMeters)
      IN  [drag |-> d, bodies |-> [bs EXCEPT ![d.targetBody].position = newPos],
           ret |-> "undefined", calls |-> <<>>]

IdleState(d) ==
    [d EXCEPT !.active = FALSE, !.targetBody = 0, !.offset = VZero,
              !.initialPosition = <<>>]

\* handleRelease with the reset forgotten for initialPosition
handleReleaseKeepsInitial(d, bs, hasCallback) ==
    IF ~d.active
    THEN [drag |-> d, bodies |-> bs, ret |-> "undefined", calls |-> <<>>]
    ELSE [drag |-> [d EXCEPT !.active = FALSE, !.targetBody = 0, !.offset = VZero],
          bodies |-> IF d.snapBack /\ d.initialPosition # <<>>
                     THEN [bs EXCEPT ![d.targetBody].position = d.initialPosition]
                     ELSE bs,
          ret |-> "undefined",
          calls |-> IF hasCallback
                    THEN <<[body |-> d.targetBody, active |-> TRUE]>>
                    ELSE <<>>]

\* handleRelease(onRelease): each call of onRelease is recorded with the body
\* it was given and whether the controller was still active at that moment
handleRelease(d, bs, hasCallback) ==
    IF ~d.active
    THEN [drag |-> d, bodies |-> bs, ret |-> "undefined", calls |-> <<>>]
    ELSE
      LET bs1 == IF d.snapBack /\ d.initialPosition # <<>>
                 THEN [bs EXCEPT ![d.targetBody].position = d.initialPosition]
                 ELSE bs
          calls == IF hasCallback
                   THEN <<[body |-> d.targetBody, active |-> d.active]>>
                   ELSE <<>>
      IN  [drag |-> IdleState(d), bodies |-> bs1, ret |-> "undefined",
           calls |-> calls]

isDragging(d) == d.active
getDraggedBody(d) == d.targetBody

\* cancel that runs the release path (snap back) before resetting
cancelAsRelease(d, bs) == handleRelease(d, bs, FALSE)

cancel(d, bs) ==
    [drag |-> IdleState(d), bodies |-> bs, ret |-> "undefined", calls |-> <<>>]

(***************************************************************************)
(* A controller and two overlapping circular bodies driven by mouse events *)
(***************************************************************************)
DragMice == {Vec(I(125), I(400)), Vec(I(190), I(400)), Vec(I(500), I(50))}
\* the bodies argument of handlePress: arrays, or a single body
DragTargets == {<<1, 2>>, <<2, 1>>, <<2>>}
DragSmoothings == {Zero, Q(1, 2)}

DragInit ==
    /\ bodies = <<PhysicsBody(I(1), I(1), I(1), "circle", Vec(I(1), I(2)), Vec(I(1), Zero)),
                  PhysicsBody(I(1), I(1), I(1), "circle", Vec(Q(3, 2), I(2)), VZero)>>
    /\ \E sb \in BOOLEAN, sm \in DragSmoothings : drag = DragController(sb, sm)
    /\ inputs = [none |-> TRUE]
    /\ scene = [name |-> "DragController"]
    /\ canvas = [height |-> I(600)]
    /\ obs = [op |-> "new"]
    /\ frames = 0

DragApply(op, r, args) ==
    /\ drag' = r.drag
    /\ bodies' = r.bodies
    /\ obs' = [op |-> op, args |-> args, ret |-> r.ret, calls |-> r.calls,
               pre |-> [drag |-> drag, bodies |-> bodies]]
    /\ frames' = frames + 1
    /\ UNCHANGED <<inputs, scene, canvas>>

DragHandlePress ==
    /\ frames < MaxFrames
    /\ \E targets \in DragTargets, mouse \in DragMice :
          DragApply("handlePress", handlePress(drag, bodies, targets, mouse, canvas),
                    [targets |-> targets, mouse |-> mouse])

DragStartDrag ==
    /\ frames < MaxFrames
    /\ \E i \in 1..2, mouse \in DragMice :
          DragApply("startDrag", startDrag(drag, bodies, i, mouse, canvas),
                    [body |-> i, mouse |-> mouse])

DragHandleDrag ==
    /\ frames < MaxFrames
    /\ \E mouse \in DragMice :
          DragApply("handleDrag", handleDrag(drag, bodies, mouse, canvas),
                    [mouse |-> mouse])

DragHandleRelease ==
    /\ frames < MaxFrames
    /\ \E hasCallback \in BOOLEAN :
          DragApply("handleRelease", handleRelease(drag, bodies, hasCallback),
                    [hasCallback |-> hasCallback])

DragCancel ==
    /\ frames < MaxFrames
    /\ DragApply("cancel", cancel(drag, bodies), [none |-> TRUE])

DragNext ==
    \/ DragHandlePress
    \/ DragStartDrag
    \/ DragHandleDrag
    \/ DragHandleRelease
    \/ DragCancel

SpecDrag == DragInit /\ [][DragNext]_vars

\* the bodies of a handlePress call that the mouse is over, in list order
HitTargets(targets, bs, mouse, c) ==
    SelectSeq(targets, LAMBDA i : checkHover(bs[i], toScreenPosition(c, bs[i]), mouse))

IsIdle(d) ==
    /\ ~isDragging(d) /\ getDraggedBody(d) = 0
    /\ d.offset = VZero /\ d.initialPosition = <<>>

\* C3: handlePress starts a drag on the first body in list order that the
\* mouse hits and returns true; it returns false and leaves the controller
\* as it was when no body is hit.
HandlePressStartsDragOnHit ==
    obs.op = "handlePress" =>
        LET hits == HitTargets(obs.args.targets, obs.pre.bodies, obs.args.mouse, canvas)
        IN  IF hits # <<>>
            THEN obs.ret = TRUE /\ isDragging(drag) /\ getDraggedBody(drag) = hits[1]
            ELSE obs.ret = FALSE /\ drag = obs.pre.drag

\* C9: handleRelease(onRelease) during a drag invokes onRelease exactly once,
\* with the dragged body and before the reset, and leaves the controller
\* idle; without an active drag it changes nothing and invokes nothing.
ReleaseCallsBackOnceAndResets ==
    obs.op = "handleRelease" =>
        IF obs.pre.drag.active
        THEN /\ obs.args.hasCallback =>
                   obs.calls = <<[body |-> obs.pre.drag.targetBody, active |-> TRUE]>>
             /\ ~obs.args.hasCallback => obs.calls = <<>>
             /\ IsIdle(drag)
        ELSE /\ obs.calls = <<>>
             /\ drag = obs.pre.drag /\ bodies = obs.pre.bodies

\* a release with a callback ends a snap-back drag whose body was moved
ReleaseCallsBackOnceAndResetsWitness ==
    /\ obs.op = "handleRelease" /\ obs.args.hasCallback
    /\ obs.pre.drag.active /\ obs.pre.drag.initialPosition # <<>>
    /\ obs.pre.drag.offset # VZero
    /\ Len(obs.calls) = 1

\* C10: cancel() resets active, targetBody, offset and initialPosition to
\* their idle values from any controller state, invokes no callback and
\* leaves every body untouched, also when snapBack is enabled.
CancelResetsWithoutRelease ==
    obs.op = "cancel" =>
        /\ IsIdle(drag)
        /\ obs.calls = <<>>
        /\ bodies = obs.pre.bodies
        /\ drag.snapBack = obs.pre.drag.snapBack
        /\ drag.smoothing = obs.pre.drag.smoothing

\* a snap-back drag that had moved its body away from the initial position
\* was cancelled
CancelResetsWithoutReleaseWitness ==
    /\ obs.op = "cancel"
    /\ obs.pre.drag.active /\ obs.pre.drag.snapBack
    /\ obs.pre.drag.initialPosition # <<>>
    /\ obs.pre.bodies[obs.pre.drag.targetBody].position # obs.pre.drag.initialPosition

(***************************************************************************)
(* ForceCalculator.gravity and Spring (app/(core)/physics/Spring.ts)       *)
(***************************************************************************)
\* ForceCalculator.gravity(mass, g) without a direction: {x: 0, y: -mass*g}
gravity(mass, g) == Vec(Zero, RNeg(RMul(mass, g)))

Spring(anchor, restLengthMeters, k) ==
    [anchor |-> anchor, restLength |-> restLengthMeters, k |-> k]

SpringEps == Q(1, 10000)

\* the force Spring.connect passes to body.applyForce: <<force>>, or <<>>
\* when it returns early
connectForce(sp, body) ==
    LET force == VSub(sp.anchor, body.position)
        currentLength == VMag(force)
        displacement == RSub(currentLength, sp.restLength)
        springForceMag == RMul(RNeg(sp.k), displacement)
    IN  IF RLt(currentLength, SpringEps) THEN <<>>
        ELSE <<VMult(VNormalize(force), springForceMag)>>

connect(sp, body) ==
    IF connectForce(sp, body) = <<>> THEN body
    ELSE applyForce(body, connectForce(sp, body)[1])

\* p.constrain(d, min, max)
RConstrain(d, lo, hi) == IF RLt(d, lo) THEN lo ELSE IF RGt(d, hi) THEN hi ELSE d

constrainLength(sp, body, lo, hi) ==
    LET direction == VSub(body.position, sp.anchor)
        d == VMag(direction)
    IN  IF RLt(d, lo) \/ RGt(d, hi)
        THEN [body EXCEPT
                !.position = VAdd(sp.anchor,
                                  VMult(VNormalize(direction), RConstrain(d, lo, hi))),
                !.velocity = VMult(@, Q(1, 2))]
        ELSE body

(***************************************************************************)
(* SpringConnection simulation (simulations/SpringConnection.jsx)          *)
(***************************************************************************)
SpringCanvasW == I(800)
SpringCanvasH == I(600)
SpringDts == {Zero, Q(1, 2), One}
SpringRestLengths == {Q(1, 2), I(5)}
SpringKs == {I(1), I(2)}
SpringDampings == {Zero, Q(1, 2)}

\* setupSimulation: anchor near the top, bob hanging below it
SpringSetup(in) ==
    LET anchorPhysics == Vec(RDiv(toMeters(SpringCanvasW), I(2)),
                             RSub(toMeters(SpringCanvasH), Q(1, 5)))
        initialPhysics == Vec(anchorPhysics.x,
                              RSub(RSub(anchorPhysics.y, in.springRestLength), One))
    IN  [body |-> PhysicsBody(in.bobMass, in.bobSize, One, "circle",
                              initialPhysics, VZero),
         spring |-> Spring(anchorPhysics, in.springRestLength, in.springK)]

SpringInit ==
    /\ \E rest \in SpringRestLengths, k \in SpringKs, c \in SpringDampings :
          inputs = [springRestLength |-> rest, springK |-> k, bobMass |-> Q(1, 5),
                    bobSize |-> Q(1, 2), bobDamping |-> c, gravity |-> Q(981, 100),
                    minLength |-> Q(1, 5), maxLength |-> Q(7, 2)]
    /\ bodies = <<SpringSetup(inputs).body>>
    /\ scene = [name |-> "SpringConnection", spring |-> SpringSetup(inputs).spring]
    /\ drag = DragController(FALSE, Zero)
    /\ canvas = setCanvasHeight([height |-> I(600)], SpringCanvasH)
    /\ obs = [op |-> "setup"]
    /\ frames = 0

\* handleInputChange(name, value)
SpringInputChange ==
    /\ frames < MaxFrames
    /\ \/ \E v \in SpringRestLengths : inputs' = [inputs EXCEPT !.springRestLength = v]
       \/ \E v \in SpringKs : inputs' = [inputs EXCEPT !.springK = v]
       \/ \E v \in SpringDampings : inputs' = [inputs EXCEPT !.bobDamping = v]
    /\ inputs' # inputs
    /\ obs' = [op |-> "input"]
    /\ frames' = frames + 1
    /\ UNCHANGED <<bodies, drag, scene, canvas>>

\* p.mousePressed: handlePress(p, body, mousePhysics)
SpringMousePressed ==
    /\ frames < MaxFrames
    /\ \E mouse \in DragMice :
          LET r == handlePress(drag, bodies, <<1>>, mouse, canvas)
          IN  /\ drag' = r.drag
              /\ bodies' = r.bodies
              /\ obs' = [op |-> "mousePressed", ret |-> r.ret]
    /\ frames' = frames + 1
    /\ UNCHANGED <<inputs, scene, canvas>>

\* p.draw with dt = computeDelta(p)
SpringDraw ==
    /\ frames < MaxFrames
    /\ \E dt \in SpringDts :
          IF RLe(dt, Zero)
          THEN /\ obs' = [op |-> "draw", dt |-> dt, connected |-> FALSE]
               /\ UNCHANGED <<bodies, scene, canvas>>
          ELSE
            LET sp == [scene.spring EXCEPT !.k = inputs.springK,
                                           !.restLength = inputs.springRestLength]
                b1 == updateParams(bodies[1], inputs.bobMass, inputs.bobSize,
                                   bodies[1].restitution)
                b2 == applyForce(b1, gravity(inputs.bobMass, inputs.gravity))
                b3 == connect(sp, b2)
                b4 == IF VMagGt(b3.velocity, MovingEps)
                      THEN applyForce(b3, VMult(b3.velocity, RNeg(inputs.bobDamping)))
                      ELSE b3
                b5 == step(b4, dt)
                b6 == constrainLength(sp, b5, inputs.minLength, inputs.maxLength)
            IN  /\ canvas' = setCanvasHeight(canvas, SpringCanvasH)
                /\ scene' = [scene EXCEPT !.spring = sp]
                /\ bodies' = <<IF isDragging(drag) THEN b1 ELSE b6>>
                /\ obs' = [op |-> "draw", dt |-> dt,
                           connected |-> ~isDragging(drag),
                           body |-> b2, spring |-> sp,
                           springForce |-> connectForce(sp, b2)]
    /\ frames' = frames + 1
    /\ UNCHANGED <<drag, inputs>>

SpringNext == SpringInputChange \/ SpringMousePressed \/ SpringDraw

SpecSpring == SpringInit /\ [][SpringNext]_vars

\* C1: Spring.connect applies Hooke's law with the documented direction:
\* at distance L >= 0.0001 from the anchor the force has magnitude
\* k*|L - restLength| and points toward the anchor when the spring is
\* stretched and away from it when compressed; for L < 0.0001 no force is
\* applied.
SpringForceFollowsHooke ==
    (obs.op = "draw" /\ obs.connected) =>
        LET toAnchor == VSub(obs.spring.anchor, obs.body.position)
            L == VMag(toAnchor)
            x == RSub(L, obs.spring.restLength)
        IN  IF RLt(L, SpringEps) THEN obs.springForce = <<>>
            ELSE /\ obs.springForce # <<>>
                 /\ VMag(obs.springForce[1]) = RMul(obs.spring.k, RAbs(x))
                 /\ RGt(x, Zero) => RGt(VDot(obs.springForce[1], toAnchor), Zero)
                 /\ RLt(x, Zero) => RLt(VDot(obs.springForce[1], toAnchor), Zero)

(***************************************************************************)
(* ForceCalculator friction (app/(core)/physics/ForceCalculator.js)        *)
(* A null result is <<>>, a number r is <<r>>.                              *)
(***************************************************************************)
staticFriction(normalForce, coefficient, appliedForce) ==
    LET maxStatic == RMul(coefficient, normalForce)
    IN  IF RLe(RAbs(appliedForce), maxStatic) THEN <<RNeg(appliedForce)>>
        ELSE <<>>

kineticFriction(normalForce, coefficient, velocity) ==
    IF RLt(RAbs(velocity), MovingEps) THEN Zero
    ELSE RMul(RNeg(RSign(velocity)), RMul(coefficient, normalForce))

\* friction that never tries static friction
frictionAlwaysKinetic(normalForce, staticCoeff, kineticCoeff, velocity, appliedForce) ==
    kineticFriction(normalForce, kineticCoeff, velocity)

friction(normalForce, staticCoeff, kineticCoeff, velocity, appliedForce) ==
    LET isMoving == RGt(RAbs(velocity), MovingEps)
        staticF == staticFriction(normalForce, staticCoeff, appliedForce)
    IN  IF ~isMoving
        THEN IF staticF # <<>> THEN staticF[1]
             ELSE RMul(RMul(RNeg(RSign(appliedForce)), kineticCoeff), normalForce)
        ELSE kineticFriction(normalForce, kineticCoeff, velocity)

(***************************************************************************)
(* Test scene (app/pages/simulations/test.jsx): two circular bodies        *)
(***************************************************************************)
TestCanvasW == I(800)
TestCanvasH == I(600)
GroundEps == Q(1, 100)

\* ground friction of p.draw, applied to a body that already carries gravity
TestGroundFriction(b, in) ==
    LET bottomM == toMeters(TestCanvasH)
        onGround == RGe(RAdd(b.position.y, RDiv(b.size, I(2))),
                        RSub(bottomM, GroundEps))
    IN  IF onGround /\ VMagGt(b.velocity, GroundEps) /\ RGt(in.frictionMu, Zero)
        THEN applyForce(b,
               Vec(friction(RMul(b.mass, in.gravity), in.frictionMu,
                            RMul(in.frictionMu, Q(4, 5)), b.velocity.x, Zero),
                   Zero))
        ELSE b

\* constrainToBounds(radius, W - radius, radius, H - radius) of p.draw
TestConstrain(b, radius) ==
    constrainToBounds(b, radius, RSub(toMeters(TestCanvasW), radius),
                      radius, RSub(toMeters(TestCanvasH), radius)).body

\* the per-body part of p.draw: sync, gravity, ground friction, step, bounds
TestUpdateBody(body, in, dt) ==
    TestConstrain(
        step(TestGroundFriction(
                 applyForce([updateParams(body, body.mass, body.size, in.restitution)
                                EXCEPT !.trail.enabled = in.trailEnabled],
                            gravity(body.mass, in.gravity)),
                 in),
             dt),
        RDiv(body.size, I(2)))

\* the impulse step of the pairwise loop, for separated bodies s1 and s2
collideResolve(s1, s2, normal, velAlongNormal, restitution) ==
    IF RLt(velAlongNormal, Zero)
    THEN [b1 |-> s1, b2 |-> s2, detected |-> TRUE, impulse |-> <<>>]
    ELSE LET impulse == RDiv(RMul(RNeg(RAdd(One, restitution)), velAlongNormal),
                             RAdd(RDiv(One, s1.mass), RDiv(One, s2.mass)))
         IN  [b1 |-> applyImpulse(s1, VMult(normal, RNeg(impulse))),
              b2 |-> applyImpulse(s2, VMult(normal, impulse)),
              detected |-> TRUE, impulse |-> <<impulse>>]

\* the separation step of the pairwise loop, for overlapping bodies
collideSeparate(body1, body2, normal, halfOverlap) ==
    collideResolve([body1 EXCEPT !.position = VSub(@, VMult(normal, halfOverlap))],
                   [body2 EXCEPT !.position = VAdd(@, VMult(normal, halfOverlap))],
                   normal,
                   VDot(VSub(body2.velocity, body1.velocity), normal),
                   RDiv(RAdd(body1.restitution, body2.restitution), I(2)))

\* the detection step of the pairwise loop
collideDetect(body1, body2, dist, minDist) ==
    IF ~RLt(dist, minDist)
    THEN [b1 |-> body1, b2 |-> body2, detected |-> FALSE, impulse |-> <<>>]
    ELSE collideSeparate(body1, body2,
                         VNormalize(VSub(body2.position, body1.position)),
                         RDiv(RSub(minDist, dist), I(2)))

\* the body of the pairwise loop for bodies i and j: the bodies afterwards,
\* whether a collision was detected, and the impulse applied (<<>> if none)
collidePair(body1, body2) ==
    collideDetect(body1, body2, VDist(body1.position, body2.position),
                  RDiv(RAdd(body1.size, body2.size), I(2)))

TestMasses == {I(1), I(2)}
TestHeights == {I(2), I(4)}
TestRestitutions == {Q(1, 2), One}
TestFrictions == {Zero, Q(1, 2)}
TestDts == {Zero, Q(1, 2), One}

\* createBodies: masses, sizes and positions are random; velocities are zero
TestInit ==
    /\ \E e \in TestRestitutions, mu \in TestFrictions :
          inputs = [gravity |-> Q(981, 100), numBodies |-> 2, trailEnabled |-> FALSE,
                    restitution |-> e, frictionMu |-> mu]
    /\ \E m1 \in TestMasses, m2 \in TestMasses, y2 \in TestHeights :
          bodies = <<PhysicsBody(m1, I(1), inputs.restitution, "circle",
                                 Vec(I(3), I(1)), VZero),
                    PhysicsBody(m2, I(2), inputs.restitution, "circle",
                                 Vec(I(3), y2), VZero)>>
    /\ scene = [name |-> "Test", lastNumBodies |-> 2]
    /\ drag = NoDrag
    /\ canvas = [height |-> I(600)]
    /\ obs = [op |-> "setup"]
    /\ frames = 0

\* handleInputChange(name, value)
TestInputChange ==
    /\ frames < MaxFrames
    /\ \/ \E v \in TestRestitutions : inputs' = [inputs EXCEPT !.restitution = v]
       \/ \E v \in TestFrictions : inputs' = [inputs EXCEPT !.frictionMu = v]
       \/ \E v \in BOOLEAN : inputs' = [inputs EXCEPT !.trailEnabled = v]
    /\ inputs' # inputs
    /\ obs' = [op |-> "input"]
    /\ frames' = frames + 1
    /\ UNCHANGED <<bodies, drag, scene, canvas>>

\* the end of a frame: u1 and u2 are the bodies after the per-body loop
TestCollisionPass(dt, u1, u2, r) ==
    /\ bodies' = <<r.b1, r.b2>>
    /\ obs' = [op |-> "draw", dt |-> dt, detected |-> r.detected,
               before |-> <<u1, u2>>, impulse |-> r.impulse]

TestFrame(dt, u1, u2) == TestCollisionPass(dt, u1, u2, collidePair(u1, u2))

\* p.draw with dt = computeDelta(p); numBodies stays at lastNumBodies
TestDraw ==
    /\ frames < MaxFrames
    /\ \E dt \in TestDts :
          IF RLe(dt, Zero)
          THEN /\ obs' = [op |-> "draw", dt |-> dt, detected |-> FALSE]
               /\ UNCHANGED bodies
          ELSE
            TestFrame(dt, TestUpdateBody(bodies[1], inputs, dt),
                          TestUpdateBody(bodies[2], inputs, dt))
    /\ frames' = frames + 1
    /\ UNCHANGED <<drag, inputs, scene, canvas>>

TestNext == TestInputChange \/ TestDraw

SpecTest == TestInit /\ [][TestNext]_vars

\* relative velocity of the pair along the line of centres, from body 1 to
\* body 2: negative when the bodies approach, positive when they separate
ClosingSpeed(b1, b2) ==
    VDot(VSub(b2.velocity, b1.velocity),
         VNormalize(VSub(b2.position, b1.position)))

\* C2: in the pairwise collision pass, for two overlapping bodies the
\* velocities change only when the bodies approach each other along the
\* line of centres; when they are separating both velocities are unchanged.
ImpulseOnlyWhenApproaching ==
    (obs.op = "draw" /\ obs.detected) =>
        LET closing == ClosingSpeed(obs.before[1], obs.before[2])
            changed == \/ bodies[1].velocity # obs.before[1].velocity
                       \/ bodies[2].velocity # obs.before[2].velocity
        IN  /\ changed => RLt(closing, Zero)
            /\ RGt(closing, Zero) => ~changed

(***************************************************************************)
(* Inclined plane: InclinedPlaneForces (ForceCalculator.js),               *)
(* InclinedPlaneBody.js, InclinedPlaneDragController (DragController.js).  *)
(* An angle is kept as the point (cos, sin) of the unit circle it names,   *)
(* with rational coordinates, so Math.cos and Math.sin are exact; the      *)
(* difference of two angles is the rotation of one point by the other.     *)
(***************************************************************************)
Angle(c, s) == [cos |-> c, sin |-> s]

\* angleRad - appliedAngleRad
AngleSub(a, b) ==
    Angle(RAdd(RMul(a.cos, b.cos), RMul(a.sin, b.sin)),
          RSub(RMul(a.sin, b.cos), RMul(a.cos, b.sin)))

resolveForce(magnitude, a) ==
    [x |-> RMul(magnitude, a.cos), y |-> RMul(magnitude, a.sin)]

inclinedPlaneComponents(weight, a) ==
    [parallel |-> RMul(weight, a.sin), perpendicular |-> RMul(weight, a.cos)]

\* the friction branch of calculate; vel is
\* body.state.velocity?.x || body.state.vel || 0, i.e. state.velocity.x
calculateFriction(p, body, isMoving, normal, netWithoutFriction) ==
    IF ~isMoving
    THEN IF staticFriction(normal, p.frictionStatic, netWithoutFriction) # <<>>
         THEN staticFriction(normal, p.frictionStatic, netWithoutFriction)[1]
         ELSE RMul(RMul(RNeg(RSign(netWithoutFriction)), p.frictionKinetic), normal)
    ELSE kineticFriction(normal, p.frictionKinetic, body.velocity.x)

calculateResult(weight, w, applied, normal, frictionForce) ==
    [weight |-> [magnitude |-> weight, parallel |-> w.parallel,
                 perpendicular |-> w.perpendicular],
     normal |-> normal,
     friction |-> frictionForce,
     applied |-> [parallel |-> applied.x, perpendicular |-> applied.y],
     netParallel |-> RAdd(RAdd(RNeg(w.parallel), applied.x), frictionForce)]

calculateWith(p, body, isMoving, weight, w, applied, normal) ==
    calculateResult(weight, w, applied, normal,
        calculateFriction(p, body, isMoving, normal,
                          RSub(applied.x, w.parallel)))

calculateNormal(p, body, isMoving, weight, w, applied) ==
    calculateWith(p, body, isMoving, weight, w, applied,
                  RMax(Zero, RSub(w.perpendicular, applied.y)))

\* InclinedPlaneForces.calculate(body, isMoving) with this.params = p
calculate(p, body, isMoving) ==
    calculateNormal(p, body, isMoving, RMul(body.mass, p.gravity),
        inclinedPlaneComponents(RMul(body.mass, p.gravity), p.angle),
        resolveForce(p.appliedForce, AngleSub(p.angle, p.appliedAngle)))

\* new InclinedPlaneBody(p, params, initialPosAlongPlane)
InclinedPlaneBody(mass, size, restitution, initialPosAlongPlane) ==
    LET b0 == PhysicsBody(mass, size, restitution, "square", VZero, VZero)
    IN  [f \in DOMAIN b0 \cup {"planeState"} |->
            IF f = "planeState"
            THEN [posAlongPlane |-> initialPosAlongPlane,
                  velAlongPlane |-> Zero, accAlongPlane |-> Zero]
            ELSE b0[f]]

stepAlongPlane(b, dt, netForceParallel) ==
    IF RLe(dt, Zero) THEN b
    ELSE
      LET acc == RDiv(netForceParallel, b.mass)
          vel == RAdd(b.planeState.velAlongPlane, RMul(acc, dt))
          pos == RAdd(b.planeState.posAlongPlane, RMul(vel, dt))
      IN  [b EXCEPT !.planeState = [posAlongPlane |-> pos, velAlongPlane |-> vel,
                                    accAlongPlane |-> acc],
                    !.acceleration = Vec(acc, Zero),
                    !.velocity = Vec(vel, Zero),
                    !.isMoving = RGt(RAbs(vel), MovingEps)]

getScreenPosition(b, planeStart, a) ==
    Vec(RAdd(planeStart.x, RMul(toPixels(b.planeState.posAlongPlane), a.cos)),
        RSub(planeStart.y, RMul(toPixels(b.planeState.posAlongPlane), a.sin)))

setPositionFromScreen(b, planeStart, a, mouse) ==
    LET dx == RSub(mouse.x, planeStart.x)
        dy == RSub(mouse.y, planeStart.y)
        projectedDist == RSub(RMul(dx, a.cos), RMul(dy, a.sin))
    IN  [b EXCEPT !.planeState = [posAlongPlane |-> toMeters(projectedDist),
                                  velAlongPlane |-> Zero,
                                  accAlongPlane |-> Zero]]

\* constrainToPlane: [body |-> the body afterwards, ret |-> constrained]
constrainToPlane(b, planeLength) ==
    LET minPos == RDiv(b.size, I(2))
        maxPos == RSub(planeLength, RDiv(b.size, I(2)))
    IN  IF RLt(b.planeState.posAlongPlane, minPos)
        THEN [body |-> [b EXCEPT !.planeState.posAlongPlane = minPos,
                                 !.planeState.velAlongPlane =
                                     RMul(@, RNeg(b.restitution))],
              ret |-> TRUE]
        ELSE IF RGt(b.planeState.posAlongPlane, maxPos)
        THEN [body |-> [b EXCEPT !.planeState.posAlongPlane = maxPos,
                                 !.planeState.velAlongPlane =
                                     RMul(@, RNeg(b.restitution))],
              ret |-> TRUE]
        ELSE [body |-> b, ret |-> FALSE]

\* checkHoverOnPlane, p.dist compared on the squares
checkHoverOnPlane(b, planeStart, a, mouse) ==
    RLe(VMagSq(VSub(getScreenPosition(b, planeStart, a), mouse)),
        RMul(RDiv(toPixels(b.size), I(2)), RDiv(toPixels(b.size), I(2))))

updateTrailOnPlane(b) ==
    LET pts == Append(b.trail.points, Vec(b.planeState.posAlongPlane, Zero))
    IN  [b EXCEPT !.trail.points =
            IF Len(pts) > b.trail.maxLength THEN Tail(pts) ELSE pts]

\* InclinedPlaneBody.reset(initialPosAlongPlane): the base state is kept
resetOnPlane(b, initialPosAlongPlane) ==
    clearTrail([b EXCEPT !.planeState = [posAlongPlane |-> initialPosAlongPlane,
                                         velAlongPlane |-> Zero,
                                         accAlongPlane |-> Zero],
                         !.isMoving = FALSE])

\* InclinedPlaneDragController.handlePress(p, body)
InclinedPlaneHandlePress(d, bs, plane, a, mouse, c) ==
    IF checkHoverOnPlane(bs[1], plane.start, a, mouse)
    THEN [startDrag(d, bs, 1, mouse, c) EXCEPT !.ret = TRUE]
    ELSE [drag |-> d, bodies |-> bs, ret |-> FALSE, calls |-> <<>>]

\* InclinedPlaneDragController.handleDrag(p)
InclinedPlaneHandleDrag(d, bs, plane, a, mouse) ==
    IF ~d.active \/ d.targetBody = 0
    THEN [drag |-> d, bodies |-> bs, ret |-> "undefined", calls |-> <<>>]
    ELSE [drag |-> d,
          bodies |-> [bs EXCEPT ![d.targetBody] =
                         setPositionFromScreen(@, plane.start, a, mouse)],
          ret |-> "undefined", calls |-> <<>>]

(***************************************************************************)
(* InclinedPlane simulation (simulations/InclinedPlane.jsx)                *)
(***************************************************************************)
PlaneMaxFrames == 5
PlaneCanvasW == I(800)
PlaneCanvasH == I(600)
\* the horizontal, and the slope of the 3-4-5 triangle
PlaneAngles == {Angle(One, Zero), Angle(Q(4, 5), Q(3, 5))}
PlaneStaticCoeffs == {Q(1, 2), One}
PlaneAppliedForces == {Zero, I(4)}
PlaneDts == {Zero, Q(1, 2)}
PlaneMice == {Vec(I(280), I(390)), Vec(I(300), I(450)), Vec(I(700), I(100))}

\* setupSimulation: the plane
PlaneSetup ==
    [start |-> Vec(RMul(PlaneCanvasW, Q(1, 4)), RMul(PlaneCanvasH, Q(3, 4))),
     length |-> RDiv(RMul(RMin(PlaneCanvasW, PlaneCanvasH), Q(3, 5)), I(100))]

PlaneInitialPos(in) == RAdd(RDiv(in.size, I(2)), One)

PlaneForceParams(in) ==
    [gravity |-> in.gravity, angle |-> in.angle,
     frictionStatic |-> in.frictionStatic, frictionKinetic |-> in.frictionKinetic,
     appliedForce |-> in.appliedForce, appliedAngle |-> in.appliedAngle]

PlaneInit ==
    /\ \E a \in PlaneAngles :
          inputs = [mass |-> One, size |-> One, gravity |-> I(10), angle |-> a,
                    frictionStatic |-> Q(1, 2), frictionKinetic |-> Q(1, 4),
                    appliedForce |-> Zero, appliedAngle |-> Angle(One, Zero),
                    trailEnabled |-> TRUE]
    /\ bodies = <<[InclinedPlaneBody(One, One, Q(3, 10), PlaneInitialPos([size |-> One]))
                      EXCEPT !.trail.enabled = TRUE, !.trail.maxLength = 150]>>
    /\ drag = DragController(FALSE, Zero)
    /\ scene = [name |-> "InclinedPlane", plane |-> PlaneSetup]
    /\ canvas = [height |-> PlaneCanvasH]
    /\ obs = [op |-> "setup"]
    /\ frames = 0

PlaneInputChange ==
    /\ frames < PlaneMaxFrames
    /\ \E mu \in PlaneStaticCoeffs, f \in PlaneAppliedForces :
          /\ <<mu, f>> # <<inputs.frictionStatic, inputs.appliedForce>>
          /\ inputs' = [inputs EXCEPT !.frictionStatic = mu, !.appliedForce = f]
    /\ obs' = [op |-> "input"]
    /\ frames' = frames + 1
    /\ UNCHANGED <<bodies, drag, scene, canvas>>

\* the physics step of p.draw when the block is not dragged and dt > 0
PlaneStep(b, dt, netParallel, plane) ==
    IF constrainToPlane(stepAlongPlane(b, dt, netParallel), plane.length).body.trail.enabled
    THEN updateTrailOnPlane(
             constrainToPlane(stepAlongPlane(b, dt, netParallel), plane.length).body)
    ELSE constrainToPlane(stepAlongPlane(b, dt, netParallel), plane.length).body

PlaneFrameWith(b, d, dt, forces, plane) ==
    [body |-> IF ~isDragging(d) /\ RGt(dt, Zero)
              THEN PlaneStep(b, dt, forces.netParallel, plane)
              ELSE b,
     forces |-> forces]

\* p.draw up to the rendering
PlaneFrame(b, d, in, dt, plane) ==
    PlaneFrameWith(
        [updateParams(b, in.mass, in.size, b.restitution)
            EXCEPT !.trail.enabled = in.trailEnabled],
        d, dt,
        calculate(PlaneForceParams(in),
                  updateParams(b, in.mass, in.size, b.restitution), b.isMoving),
        plane)

PlaneDraw ==
    /\ frames < PlaneMaxFrames
    /\ \E dt \in PlaneDts :
          /\ bodies' = <<PlaneFrame(bodies[1], drag, inputs, dt, scene.plane).body>>
          /\ obs' = [op |-> "draw", dt |-> dt, dragging |-> isDragging(drag),
                     before |-> bodies[1],
                     forces |-> PlaneFrame(bodies[1], drag, inputs, dt,
                                           scene.plane).forces]
    /\ frames' = frames + 1
    /\ UNCHANGED <<drag, inputs, scene, canvas>>

PlaneMousePressed ==
    /\ frames < PlaneMaxFrames
    /\ \E mouse \in PlaneMice :
          /\ drag' = InclinedPlaneHandlePress(drag, bodies, scene.plane,
                                              inputs.angle, mouse, canvas).drag
          /\ bodies' = InclinedPlaneHandlePress(drag, bodies, scene.plane,
                                                inputs.angle, mouse, canvas).bodies
          /\ obs' = [op |-> "mousePressed", mouse |-> mouse,
                     ret |-> InclinedPlaneHandlePress(drag, bodies, scene.plane,
                                                      inputs.angle, mouse, canvas).ret]
    /\ frames' = frames + 1
    /\ UNCHANGED <<inputs, scene, canvas>>

PlaneMouseDragged ==
    /\ frames < PlaneMaxFrames
    /\ \E mouse \in PlaneMice :
          /\ bodies' = InclinedPlaneHandleDrag(drag, bodies, scene.plane,
                                               inputs.angle, mouse).bodies
          /\ obs' = [op |-> "mouseDragged", mouse |-> mouse]
    /\ frames' = frames + 1
    /\ UNCHANGED <<drag, inputs, scene, canvas>>

PlaneMouseReleased ==
    /\ frames < PlaneMaxFrames
    /\ drag' = handleRelease(drag, bodies, FALSE).drag
    /\ bodies' = handleRelease(drag, bodies, FALSE).bodies
    /\ obs' = [op |-> "mouseReleased"]
    /\ frames' = frames + 1
    /\ UNCHANGED <<inputs, scene, canvas>>

\* onReset: body.reset(initialPos), then the sketch is set up again
PlaneReset ==
    /\ frames < PlaneMaxFrames
    /\ bodies' = <<resetOnPlane(resetOnPlane(bodies[1], PlaneInitialPos(inputs)),
                                PlaneInitialPos(inputs))>>
    /\ obs' = [op |-> "reset"]
    /\ frames' = frames + 1
    /\ UNCHANGED <<drag, inputs, scene, canvas>>

PlaneNext ==
    \/ PlaneInputChange
    \/ PlaneDraw
    \/ PlaneMousePressed
    \/ PlaneMouseDragged
    \/ PlaneMouseReleased
    \/ PlaneReset

SpecPlane == PlaneInit /\ [][PlaneNext]_vars

\* C8: whenever a draw frame with dt > 0 runs while the block is not dragged,
\* the block is at rest (velAlongPlane = 0) and the force along the incline without
\* friction is within the static limit frictionStatic * normal, the frame
\* computes netParallel = 0, leaves velAlongPlane = 0 and, for a block lying
\* within the plane's ends, leaves posAlongPlane unchanged.
StaticFrictionBalances ==
    (/\ obs.op = "draw"
     /\ ~obs.dragging
     /\ RGt(obs.dt, Zero)
     /\ obs.before.planeState.velAlongPlane = Zero
     /\ RLe(RAbs(RSub(obs.forces.applied.parallel, obs.forces.weight.parallel)),
            RMul(inputs.frictionStatic, obs.forces.normal)))
    => /\ obs.forces.netParallel = Zero
       /\ bodies[1].planeState.velAlongPlane = Zero
       /\ (~constrainToPlane(obs.before, scene.plane.length).ret
           => bodies[1].planeState.posAlongPlane
                = obs.before.planeState.posAlongPlane)

(***************************************************************************)
(* Snap-back drags: a DragController with a PhysicsBody, or an             *)
(* InclinedPlaneDragController with an InclinedPlaneBody, driven through   *)
(* startDrag, handleDrag and handleRelease.  obs.start remembers where the *)
(* body was when startDrag was last called.                                *)
(***************************************************************************)
SnapMice == {Vec(I(280), I(390)), Vec(I(100), I(400)), Vec(I(400), I(300))}
SnapKinds == {"PhysicsBody", "InclinedPlaneBody"}

SnapPlace(b) ==
    IF "planeState" \in DOMAIN b
    THEN [position |-> b.position, posAlongPlane |-> b.planeState.posAlongPlane]
    ELSE [position |-> b.position]

SnapInit ==
    /\ \E kind \in SnapKinds, snapBack \in BOOLEAN :
          /\ scene = [name |-> "snapBack", kind |-> kind, plane |-> PlaneSetup]
          /\ bodies = IF kind = "PhysicsBody"
                      THEN <<PhysicsBody(One, One, One, "circle",
                                         Vec(I(1), I(2)), VZero)>>
                      ELSE <<InclinedPlaneBody(One, One, Q(3, 10), Q(3, 2))>>
          /\ drag = DragController(snapBack, Zero)
    /\ inputs = [angle |-> Angle(Q(4, 5), Q(3, 5))]
    /\ canvas = [height |-> I(600)]
    /\ obs = [op |-> "new", start |-> <<>>]
    /\ frames = 0

SnapStartDrag ==
    /\ frames < MaxFrames
    /\ \E mouse \in SnapMice :
          /\ drag' = startDrag(drag, bodies, 1, mouse, canvas).drag
          /\ bodies' = startDrag(drag, bodies, 1, mouse, canvas).bodies
          /\ obs' = [op |-> "startDrag", mouse |-> mouse,
                     start |-> SnapPlace(bodies[1])]
    /\ frames' = frames + 1
    /\ UNCHANGED <<inputs, scene, canvas>>

\* handleDrag of the controller class in use
SnapDragged(mouse) ==
    IF scene.kind = "InclinedPlaneBody"
    THEN InclinedPlaneHandleDrag(drag, bodies, scene.plane, inputs.angle, mouse)
    ELSE handleDrag(drag, bodies, mouse, canvas)

SnapHandleDrag ==
    /\ frames < MaxFrames
    /\ \E mouse \in SnapMice :
          /\ bodies' = SnapDragged(mouse).bodies
          /\ obs' = [op |-> "handleDrag", mouse |-> mouse, start |-> obs.start]
    /\ frames' = frames + 1
    /\ UNCHANGED <<drag, inputs, scene, canvas>>

SnapHandleRelease ==
    /\ frames < MaxFrames
    /\ drag' = handleRelease(drag, bodies, FALSE).drag
    /\ bodies' = handleRelease(drag, bodies, FALSE).bodies
    /\ obs' = [op |-> "handleRelease", wasActive |-> drag.active,
               before |-> bodies[1], start |-> obs.start]
    /\ frames' = frames + 1
    /\ UNCHANGED <<inputs, scene, canvas>>

SnapNext ==
    \/ SnapStartDrag
    \/ SnapHandleDrag
    \/ SnapHandleRelease

SpecSnap == SnapInit /\ [][SnapNext]_vars

\* C11: with snapBack enabled, a handleRelease that ends a drag leaves the
\* body where it was when startDrag was called: state.position for a
\* PhysicsBody, and planeState.posAlongPlane as well for an
\* InclinedPlaneBody moved by InclinedPlaneDragController.
SnapBackRestoresPosition ==
    (obs.op = "handleRelease" /\ obs.wasActive /\ drag.snapBack)
    => SnapPlace(bodies[1]) = obs.start

(***************************************************************************)
(* A body moved through its stepping and trail methods after a scenario    *)
(* has assigned trail.maxLength.  obs.hist lists, oldest first, every      *)
(* point recorded since the trail was last emptied.                        *)
(***************************************************************************)
MotionKinds == {"PhysicsBody", "InclinedPlaneBody"}
MotionMaxLengths == {1, 2}
MotionDts == {Q(-1, 2), Zero, Q(1, 2)}
MotionForces == {Vec(I(2), I(-1))}
MotionPrevious == {<<>>, <<Vec(Zero, I(1))>>}
MotionNetForces == {I(-4), I(3)}
MotionStepOps == {"step", "stepVerlet", "stepAlongPlane"}

MotionInit ==
    /\ \E kind \in MotionKinds, maxLength \in MotionMaxLengths,
          enabled \in BOOLEAN :
          /\ scene = [name |-> "motion", kind |-> kind]
          /\ bodies =
               <<[(IF kind = "PhysicsBody"
                   THEN PhysicsBody(One, One, One, "circle",
                                    Vec(I(1), I(2)), Vec(I(1), Zero))
                   ELSE InclinedPlaneBody(One, One, Q(3, 10), Q(3, 2)))
                     EXCEPT !.trail.enabled = enabled,
                            !.trail.maxLength = maxLength]>>
    /\ drag = NoDrag
    /\ inputs = [none |-> TRUE]
    /\ canvas = [height |-> I(600)]
    /\ obs = [op |-> "new", hist |-> <<>>]
    /\ frames = 0

\* the ghost list after a stepping method produced body b1 from b
MotionHistAfter(b, b1, dt) ==
    IF RGt(dt, Zero) /\ b.trail.enabled THEN Append(obs.hist, b1.position)
    ELSE obs.hist

MotionApplyForce ==
    /\ frames < MaxFrames
    /\ \E force \in MotionForces :
          /\ bodies' = <<applyForce(bodies[1], force)>>
          /\ obs' = [op |-> "applyForce", hist |-> obs.hist]
    /\ frames' = frames + 1
    /\ UNCHANGED <<drag, inputs, scene, canvas>>

MotionStep ==
    /\ frames < MaxFrames
    /\ \E dt \in MotionDts :
          /\ bodies' = <<step(bodies[1], dt)>>
          /\ obs' = [op |-> "step", dt |-> dt, before |-> bodies[1],
                     hist |-> MotionHistAfter(bodies[1], step(bodies[1], dt), dt)]
    /\ frames' = frames + 1
    /\ UNCHANGED <<drag, inputs, scene, canvas>>

MotionStepVerlet ==
    /\ frames < MaxFrames
    /\ \E dt \in MotionDts, prev \in MotionPrevious :
          /\ bodies' = <<stepVerlet(bodies[1], dt, prev).body>>
          /\ obs' = [op |-> "stepVerlet", dt |-> dt, before |-> bodies[1],
                     hist |-> MotionHistAfter(bodies[1],
                                  stepVerlet(bodies[1], dt, prev).body, dt)]
    /\ frames' = frames + 1
    /\ UNCHANGED <<drag, inputs, scene, canvas>>

MotionStepAlongPlane ==
    /\ frames < MaxFrames
    /\ scene.kind = "InclinedPlaneBody"
    /\ \E dt \in MotionDts, net \in MotionNetForces :
          /\ bodies' = <<stepAlongPlane(bodies[1], dt, net)>>
          /\ obs' = [op |-> "stepAlongPlane", dt |-> dt, before |-> bodies[1],
                     hist |-> obs.hist]
    /\ frames' = frames + 1
    /\ UNCHANGED <<drag, inputs, scene, canvas>>

MotionUpdateTrail ==
    /\ frames < MaxFrames
    /\ bodies' = <<updateTrail(bodies[1])>>
    /\ obs' = [op |-> "updateTrail", before |-> bodies[1],
               hist |-> Append(obs.hist, bodies[1].position)]
    /\ frames' = frames + 1
    /\ UNCHANGED <<drag, inputs, scene, canvas>>

MotionUpdateTrailOnPlane ==
    /\ frames < MaxFrames
    /\ scene.kind = "InclinedPlaneBody"
    /\ bodies' = <<updateTrailOnPlane(bodies[1])>>
    /\ obs' = [op |-> "updateTrailOnPlane", before |-> bodies[1],
               hist |-> Append(obs.hist,
                               Vec(bodies[1].planeState.posAlongPlane, Zero))]
    /\ frames' = frames + 1
    /\ UNCHANGED <<drag, inputs, scene, canvas>>

MotionClearTrail ==
    /\ frames < MaxFrames
    /\ bodies' = <<clearTrail(bodies[1])>>
    /\ obs' = [op |-> "clearTrail", hist |-> <<>>]
    /\ frames' = frames + 1
    /\ UNCHANGED <<drag, inputs, scene, canvas>>

\* reset of the body's own class
MotionReset ==
    /\ frames < MaxFrames
    /\ bodies' = IF scene.kind = "InclinedPlaneBody"
                 THEN <<resetOnPlane(bodies[1], Q(3, 2))>>
                 ELSE <<reset(bodies[1], [position |-> Vec(I(1), I(2))])>>
    /\ obs' = [op |-> "reset", hist |-> <<>>]
    /\ frames' = frames + 1
    /\ UNCHANGED <<drag, inputs, scene, canvas>>

\* the scenario's per-frame `trail.enabled = trailEnabled`
MotionSetTrailEnabled ==
    /\ frames < MaxFrames
    /\ bodies' = <<[bodies[1] EXCEPT !.trail.enabled = ~@]>>
    /\ obs' = [op |-> "trailEnabled", hist |-> obs.hist]
    /\ frames' = frames + 1
    /\ UNCHANGED <<drag, inputs, scene, canvas>>

MotionNext ==
    \/ MotionApplyForce
    \/ MotionStep
    \/ MotionStepVerlet
    \/ MotionStepAlongPlane
    \/ MotionUpdateTrail
    \/ MotionUpdateTrailOnPlane
    \/ MotionClearTrail
    \/ MotionReset
    \/ MotionSetTrailEnabled

SpecMotion == MotionInit /\ [][MotionNext]_vars

\* the last n elements of a sequence (all of it when it is shorter)
LastN(seq, n) ==
    IF Len(seq) <= n THEN seq ELSE SubSeq(seq, Len(seq) - n + 1, Len(seq))

\* C12: the trail never holds more than trail.maxLength points, it holds
\* the most recent recorded points in chronological order (the oldest are
\* dropped first), and a step with trail.enabled = false adds no point.
TrailIsBoundedFifo ==
    /\ Len(bodies[1].trail.points) <= bodies[1].trail.maxLength
    /\ bodies[1].trail.points = LastN(obs.hist, bodies[1].trail.maxLength)
    /\ (obs.op \in MotionStepOps /\ ~obs.before.trail.enabled)
         => bodies[1].trail.points = obs.before.trail.points

\* a full trail has just dropped its oldest point in a step
TrailIsBoundedFifoWitness ==
    /\ obs.op = "step"
    /\ RGt(obs.dt, Zero)
    /\ Len(obs.before.trail.points) = obs.before.trail.maxLength
    /\ Len(obs.hist) > bodies[1].trail.maxLength
    /\ bodies[1].trail.points # obs.before.trail.points

\* C15: step, stepVerlet and stepAlongPlane called with dt <= 0 leave the
\* body exactly as it was: position, velocity, acceleration (not reset),
\* rotation, isMoving, bounds, trail and planeState.
NonPositiveDtIsNoOp ==
    (obs.op \in MotionStepOps /\ RLe(obs.dt, Zero)) => bodies[1] = obs.before

\* step with a negative dt on a moving body with forces accumulated and the
\* trail enabled
NonPositiveDtIsNoOpWitness ==
    /\ obs.op = "step"
    /\ RLt(obs.dt, Zero)
    /\ obs.before.acceleration # VZero
    /\ obs.before.velocity # VZero
    /\ obs.before.trail.enabled

(***************************************************************************)
(* ForceCalculator's friction functions called on their own, with          *)
(* non-negative normal forces and coefficients                             *)
(***************************************************************************)
FrictionNormals == {Zero, I(8), I(10)}
FrictionStaticCoeffs == {Zero, Q(1, 2), One}
FrictionKineticCoeffs == {Zero, Q(1, 4)}
FrictionVelocities == {I(-2), Q(-1, 1000), Zero, Q(1, 2000), Q(1, 1000), I(3)}
FrictionApplied == {I(-6), I(-4), Zero, I(4), I(9)}

FrictionInit ==
    /\ bodies = <<>>
    /\ drag = NoDrag
    /\ inputs = [none |-> TRUE]
    /\ scene = [name |-> "ForceCalculator"]
    /\ canvas = [height |-> I(600)]
    /\ obs = [op |-> "none"]
    /\ frames = 0

FrictionStatic ==
    /\ \E n \in FrictionNormals, c \in FrictionStaticCoeffs, f \in FrictionApplied :
          obs' = [op |-> "staticFriction", normalForce |-> n, coefficient |-> c,
                  appliedForce |-> f, ret |-> staticFriction(n, c, f)]
    /\ UNCHANGED <<bodies, drag, inputs, scene, canvas, frames>>

FrictionKinetic ==
    /\ \E n \in FrictionNormals, c \in FrictionKineticCoeffs,
          v \in FrictionVelocities :
          obs' = [op |-> "kineticFriction", normalForce |-> n, coefficient |-> c,
                  velocity |-> v, ret |-> kineticFriction(n, c, v)]
    /\ UNCHANGED <<bodies, drag, inputs, scene, canvas, frames>>

FrictionAuto ==
    /\ \E n \in FrictionNormals, cs \in FrictionStaticCoeffs,
          ck \in FrictionKineticCoeffs, v \in FrictionVelocities,
          f \in FrictionApplied :
          obs' = [op |-> "friction", normalForce |-> n, staticCoeff |-> cs,
                  kineticCoeff |-> ck, velocity |-> v, appliedForce |-> f,
                  ret |-> friction(n, cs, ck, v, f)]
    /\ UNCHANGED <<bodies, drag, inputs, scene, canvas, frames>>

FrictionNext ==
    \/ FrictionStatic
    \/ FrictionKinetic
    \/ FrictionAuto

SpecFriction == FrictionInit /\ [][FrictionNext]_vars

\* a and b are both positive or both negative
SameSign(a, b) == RGt(RMul(a, b), Zero)

\* C13: friction returns -appliedForce when |velocity| <= 0.001 and
\* |appliedForce| <= staticCoeff*normalForce, returns
\* -sign(appliedForce)*kineticCoeff*normalForce when |velocity| <= 0.001
\* and the static limit is exceeded, returns
\* -sign(velocity)*kineticCoeff*normalForce when |velocity| > 0.001, and
\* the result never has the sign of the applied force (at rest) or of the
\* velocity (in motion) that it opposes.
FrictionAutoSelects ==
    obs.op = "friction" =>
        LET atRest == RLe(RAbs(obs.velocity), Q(1, 1000))
            holds == RLe(RAbs(obs.appliedForce),
                         RMul(obs.staticCoeff, obs.normalForce))
            kinetic == RMul(obs.kineticCoeff, obs.normalForce)
        IN  /\ (atRest /\ holds) => obs.ret = RNeg(obs.appliedForce)
            /\ (atRest /\ ~holds)
                 => obs.ret = RMul(RNeg(RSign(obs.appliedForce)), kinetic)
            /\ ~atRest => obs.ret = RMul(RNeg(RSign(obs.velocity)), kinetic)
            /\ atRest => ~SameSign(obs.ret, obs.appliedForce)
            /\ ~atRest => ~SameSign(obs.ret, obs.velocity)

\* at rest exactly at the 0.001 threshold with the static limit exceeded:
\* the kinetic magnitude is returned against the applied force
FrictionAutoSelectsWitness ==
    /\ obs.op = "friction"
    /\ obs.velocity = Q(1, 1000)
    /\ RGt(RAbs(obs.appliedForce), RMul(obs.staticCoeff, obs.normalForce))
    /\ obs.ret # Zero
    /\ obs.ret # RNeg(obs.appliedForce)

(***************************************************************************)
(* ParabolicMotion simulation (simulations/ParabolicMotion.jsx).           *)
(* scene holds p.width, p.height, needsRelaunchRef and launchMetadataRef.  *)
(* dragCoeff is 0 in every input, so the air-resistance branch of p.draw   *)
(* is not taken.                                                           *)
(***************************************************************************)
\* computeProjectileAnalytics of the ParabolicMotion config: the launch
\* velocity components of closed-form projectile kinematics
computeProjectileAnalytics(v0, angle) ==
    [vx0 |-> RMul(v0, angle.cos), vy0 |-> RMul(v0, angle.sin)]

\* the start position of recomputeLaunch
launchPosition(in, w, h) ==
    LET canvasHeightMeters == toMeters(h)
        canvasWidthMeters == toMeters(w)
        radius == RDiv(in.size, I(2))
        safeHeight == RMin(RMax(in.h0, Zero),
                           RSub(canvasHeightMeters, RMul(radius, I(2))))
        startX == RMax(toMeters(I(80)), RMul(canvasWidthMeters, Q(12, 100)))
        groundY == canvasHeightMeters
        startY == RMin(RSub(groundY, radius),
                       RMax(radius, RSub(RSub(groundY, safeHeight), radius)))
    IN  Vec(startX, startY)

\* recomputeLaunch: [body, scene] afterwards
recomputeLaunch(b, in, sc) ==
    [body |-> [updateParams(b, RMax(in.mass, Q(1, 10)), in.size, Zero)
                 EXCEPT !.position = launchPosition(in, sc.w, sc.h),
                        !.velocity =
                            Vec(computeProjectileAnalytics(in.v0, in.angle).vx0,
                                RNeg(computeProjectileAnalytics(in.v0, in.angle).vy0)),
                        !.acceleration = VZero],
     scene |-> [sc EXCEPT !.needsRelaunch = FALSE,
                          !.startPos = launchPosition(in, sc.w, sc.h)]]

\* p.setup: a new body, then recomputeLaunch(true)
ParabolicSetup(in, sc) ==
    recomputeLaunch(
        [PhysicsBody(in.mass, in.size, Zero, "circle",
                     Vec(toMeters(RMul(sc.w, Q(12, 100))),
                         RSub(toMeters(sc.h), RDiv(in.size, I(2)))),
                     VZero)
            EXCEPT !.trail.enabled = in.trailEnabled, !.trail.maxLength = 200],
        in, sc)

\* gravity, then wind
ParabolicApplyForces(b, in) ==
    IF in.wind # Zero
    THEN applyForce(applyForce(b, gravity(b.mass, in.gravity)), Vec(in.wind, Zero))
    ELSE applyForce(b, gravity(b.mass, in.gravity))

\* the ground collision of p.draw
ParabolicGround(b, h) ==
    IF RGe(b.position.y, RSub(toMeters(h), RDiv(b.size, I(2))))
    THEN [b EXCEPT !.position.y = RSub(toMeters(h), RDiv(b.size, I(2))),
                   !.velocity = Vec(RMul(b.velocity.x, Q(95, 100)), Zero)]
    ELSE b

\* p.draw after the relaunch: launched is the body and scene at that point
ParabolicFrameFrom(launched, d, in, dt) ==
    [launched |-> launched.body,
     scene |-> launched.scene,
     body |-> IF ~isDragging(d)
              THEN ParabolicGround(
                       step(ParabolicApplyForces(
                                [launched.body EXCEPT !.trail.enabled = in.trailEnabled],
                                in), dt),
                       launched.scene.h)
              ELSE [launched.body EXCEPT !.trail.enabled = in.trailEnabled]]

\* p.draw up to the rendering
ParabolicFrame(b, d, in, sc, dt) ==
    IF RLe(dt, Zero) THEN [launched |-> b, scene |-> sc, body |-> b]
    ELSE ParabolicFrameFrom(IF sc.needsRelaunch THEN recomputeLaunch(b, in, sc)
                            ELSE [body |-> b, scene |-> sc],
                            d, in, dt)

ParabolicV0s == {I(5), I(10)}
ParabolicAngles == {Angle(Q(4, 5), Q(3, 5)), Angle(One, Zero)}
ParabolicWinds == {Zero, I(2)}
ParabolicMasses == {One, Q(1, 20)}
ParabolicDts == {Zero, Q(1, 2)}
ParabolicSizes == {<<I(800), I(600)>>, <<I(600), I(400)>>}
ParabolicMice == {Vec(I(96), I(125)), Vec(I(400), I(300))}

ParabolicInputs(v0, angle, wind, mass) ==
    [mass |-> mass, size |-> Q(1, 2), gravity |-> I(10), v0 |-> v0,
     angle |-> angle, h0 |-> One, dragCoeff |-> Zero, wind |-> wind,
     trailEnabled |-> TRUE]

ParabolicScene(w, h) ==
    [name |-> "ParabolicMotion", w |-> w, h |-> h, needsRelaunch |-> TRUE,
     startPos |-> <<>>]

ParabolicInit ==
    /\ \E angle \in ParabolicAngles :
          /\ inputs = ParabolicInputs(I(5), angle, Zero, One)
          /\ bodies = <<ParabolicSetup(ParabolicInputs(I(5), angle, Zero, One),
                                       ParabolicScene(I(800), I(600))).body>>
          /\ scene = ParabolicSetup(ParabolicInputs(I(5), angle, Zero, One),
                                    ParabolicScene(I(800), I(600))).scene
    /\ drag = DragController(FALSE, Zero)
    /\ canvas = [height |-> I(600)]
    /\ obs = [op |-> "setup", pending |-> TRUE, relaunched |-> TRUE]
    /\ frames = 0

ParabolicInputChange ==
    /\ frames < MaxFrames
    /\ \E v0 \in ParabolicV0s, angle \in ParabolicAngles, wind \in ParabolicWinds,
          mass \in ParabolicMasses :
          inputs' = ParabolicInputs(v0, angle, wind, mass)
    /\ scene' = [scene EXCEPT !.needsRelaunch = TRUE]
    /\ obs' = [op |-> "input", pending |-> scene.needsRelaunch,
               relaunched |-> FALSE]
    /\ frames' = frames + 1
    /\ UNCHANGED <<bodies, drag, canvas>>

ParabolicDraw ==
    /\ frames < MaxFrames
    /\ \E dt \in ParabolicDts :
          /\ bodies' = <<ParabolicFrame(bodies[1], drag, inputs, scene, dt).body>>
          /\ scene' = ParabolicFrame(bodies[1], drag, inputs, scene, dt).scene
          /\ obs' = [op |-> "draw", dt |-> dt, pending |-> scene.needsRelaunch,
                     relaunched |-> scene.needsRelaunch /\ RGt(dt, Zero),
                     before |-> bodies[1],
                     launched |-> ParabolicFrame(bodies[1], drag, inputs,
                                                 scene, dt).launched]
    /\ frames' = frames + 1
    /\ UNCHANGED <<drag, inputs, canvas>>

ParabolicMousePressed ==
    /\ frames < MaxFrames
    /\ \E mouse \in ParabolicMice :
          /\ drag' = handlePress(drag, bodies, <<1>>, mouse, canvas).drag
          /\ bodies' = handlePress(drag, bodies, <<1>>, mouse, canvas).bodies
          /\ obs' = [op |-> "mousePressed", mouse |-> mouse,
                     pending |-> scene.needsRelaunch, relaunched |-> FALSE]
    /\ frames' = frames + 1
    /\ UNCHANGED <<inputs, scene, canvas>>

ParabolicMouseDragged ==
    /\ frames < MaxFrames
    /\ \E mouse \in ParabolicMice :
          /\ bodies' = IF isDragging(drag)
                       THEN handleDrag(drag, bodies, mouse, canvas).bodies
                       ELSE bodies
          /\ scene' = IF isDragging(drag)
                      THEN [scene EXCEPT !.needsRelaunch = FALSE]
                      ELSE scene
          /\ obs' = [op |-> "mouseDragged", mouse |-> mouse,
                     pending |-> scene.needsRelaunch, relaunched |-> FALSE]
    /\ frames' = frames + 1
    /\ UNCHANGED <<drag, inputs, canvas>>

ParabolicMouseReleased ==
    /\ frames < MaxFrames
    /\ drag' = handleRelease(drag, bodies, TRUE).drag
    /\ bodies' = handleRelease(drag, bodies, TRUE).bodies
    /\ scene' = IF handleRelease(drag, bodies, TRUE).calls # <<>>
                THEN [scene EXCEPT !.startPos = bodies'[1].position]
                ELSE scene
    /\ obs' = [op |-> "mouseReleased", pending |-> scene.needsRelaunch,
               relaunched |-> FALSE]
    /\ frames' = frames + 1
    /\ UNCHANGED <<inputs, canvas>>

ParabolicDoubleClicked ==
    /\ frames < MaxFrames
    /\ scene' = [scene EXCEPT !.needsRelaunch = TRUE]
    /\ obs' = [op |-> "doubleClicked", pending |-> scene.needsRelaunch,
               relaunched |-> FALSE]
    /\ frames' = frames + 1
    /\ UNCHANGED <<bodies, drag, inputs, canvas>>

ParabolicWindowResized ==
    /\ frames < MaxFrames
    /\ \E size \in ParabolicSizes :
          scene' = [scene EXCEPT !.w = size[1], !.h = size[2],
                                 !.needsRelaunch = TRUE]
    /\ obs' = [op |-> "windowResized", pending |-> scene.needsRelaunch,
               relaunched |-> FALSE]
    /\ frames' = frames + 1
    /\ UNCHANGED <<bodies, drag, inputs, canvas>>

\* onReset and onLoad: the flag is set and the sketch is mounted again, whose
\* p.setup relaunches
ParabolicReset ==
    /\ frames < MaxFrames
    /\ \E in \in {inputs} \cup {ParabolicInputs(I(10), inputs.angle, I(2), One)} :
          /\ inputs' = in
          /\ bodies' = <<ParabolicSetup(in, [scene EXCEPT !.needsRelaunch = TRUE]).body>>
          /\ scene' = ParabolicSetup(in, [scene EXCEPT !.needsRelaunch = TRUE]).scene
    /\ obs' = [op |-> "reset", pending |-> TRUE, relaunched |-> TRUE]
    /\ frames' = frames + 1
    /\ UNCHANGED <<drag, canvas>>

ParabolicNext ==
    \/ ParabolicInputChange
    \/ ParabolicDraw
    \/ ParabolicMousePressed
    \/ ParabolicMouseDragged
    \/ ParabolicMouseReleased
    \/ ParabolicDoubleClicked
    \/ ParabolicWindowResized
    \/ ParabolicReset

SpecParabolic == ParabolicInit /\ [][ParabolicNext]_vars

KineticFrictionOpposesMotion ==
    (/\ scene.name = "InclinedPlane"
     /\ obs.op = "draw"
     /\ obs.before.isMoving
     /\ obs.before.planeState.velAlongPlane # Zero)
    => RLt(RMul(obs.forces.friction, obs.before.planeState.velAlongPlane), Zero)

\* total linear momentum m1*v1 + m2*v2 of a pair of bodies
Momentum(b1, b2) ==
    VAdd(VMult(b1.velocity, b1.mass), VMult(b2.velocity, b2.mass))

\* C17: the pairwise collision resolution of the Test scene leaves the total
\* linear momentum m1*v1 + m2*v2 of the pair as it was before the
\* resolution.
CollisionConservesMomentum ==
    (scene.name = "Test" /\ obs.op = "draw" /\ obs.detected)
    => Momentum(bodies[1], bodies[2]) = Momentum(obs.before[1], obs.before[2])

\* a non-zero impulse exchanged between bodies of different masses
CollisionConservesMomentumWitness ==
    /\ scene.name = "Test"
    /\ obs.op = "draw"
    /\ obs.detected
    /\ obs.impulse # <<>>
    /\ obs.impulse # <<Zero>>
    /\ bodies[1].mass # bodies[2].mass
    /\ bodies[1].velocity # obs.before[1].velocity
    /\ bodies[2].velocity # obs.before[2].velocity

(***************************************************************************)
(* collideBoundary (constants/Utils.js).  acc is <<>> when it is not       *)
(* given and <<a>> otherwise.  Math.sqrt is taken on arguments whose root  *)
(* is rational.                                                            *)
(***************************************************************************)
\* the x part with the velocity left as it came in
collideBoundaryXKeepsVelocity(x, vx, w, radius, restitution) ==
    IF RLt(RSub(x, radius), Zero)
    THEN <<RAdd(radius, RSub(Zero, RSub(x, radius))), vx>>
    ELSE IF RGt(RAdd(x, radius), w)
    THEN <<RSub(RSub(w, radius), RSub(RAdd(x, radius), w)), vx>>
    ELSE <<x, vx>>

\* the x part: <<newPos.x, newVel.x>>
collideBoundaryX(x, vx, w, radius, restitution) ==
    IF RLt(RSub(x, radius), Zero)
    THEN <<RAdd(radius, RSub(Zero, RSub(x, radius))), RMul(RAbs(vx), restitution)>>
    ELSE IF RGt(RAdd(x, radius), w)
    THEN <<RSub(RSub(w, radius), RSub(RAdd(x, radius), w)),
           RMul(RNeg(RAbs(vx)), restitution)>>
    ELSE <<x, vx>>

\* the floor branch, with penetration = 0 - ballBottomEdge
collideBoundaryFloor(vy, radius, restitution, gravityMag, penetration) ==
    LET velSquared == RMul(vy, vy)
        liftDistance == RMul(I(2), penetration)
        work == IF RGt(gravityMag, Zero) THEN RMul(RMul(I(2), gravityMag), liftDistance)
                ELSE Zero
    IN  IF RGt(velSquared, work)
        THEN <<RAdd(radius, penetration),
               RMul(RSqrt(RSub(velSquared, work)), restitution)>>
        ELSE <<radius, Zero>>

\* the y part: <<newPos.y, newVel.y>>
collideBoundaryY(y, vy, h, radius, restitution, gravityMag) ==
    IF RGt(RAdd(y, radius), h)
    THEN <<RSub(RSub(h, radius), RSub(RAdd(y, radius), h)),
           RMul(RNeg(RAbs(vy)), restitution)>>
    ELSE IF RLt(RSub(y, radius), Zero)
    THEN collideBoundaryFloor(vy, radius, restitution, gravityMag,
                              RSub(Zero, RSub(y, radius)))
    ELSE <<y, vy>>

\* collideBoundary: the returned vectors and the argument vectors as the
\* call leaves them (every assignment goes to a copy)
collideBoundary(pos, vel, bounds, radius, restitution, acc) ==
    [pos |-> Vec(collideBoundaryX(pos.x, vel.x, bounds.w, radius, restitution)[1],
                 collideBoundaryY(pos.y, vel.y, bounds.h, radius, restitution,
                                  IF acc = <<>> THEN Zero ELSE RAbs(acc[1].y))[1]),
     vel |-> Vec(collideBoundaryX(pos.x, vel.x, bounds.w, radius, restitution)[2],
                 collideBoundaryY(pos.y, vel.y, bounds.h, radius, restitution,
                                  IF acc = <<>> THEN Zero ELSE RAbs(acc[1].y))[2]),
     args |-> [pos |-> pos, vel |-> vel]]

\* the calls whose Math.sqrt argument, if any, has a rational root
collideBoundaryExact(pos, vel, radius, acc) ==
    LET gravityMag == IF acc = <<>> THEN Zero ELSE RAbs(acc[1].y)
        penetration == RSub(Zero, RSub(pos.y, radius))
        rest == RSub(RMul(vel.y, vel.y), RMul(RMul(I(2), gravityMag),
                                              RMul(I(2), penetration)))
    IN  (RGt(penetration, Zero) /\ RGt(gravityMag, Zero) /\ RGt(rest, Zero))
            => HasRSqrt(rest)

BoundaryBounds == [w |-> I(4), h |-> I(3)]
BoundaryRadii == {Q(1, 2), One}
BoundaryXs == {I(-5), Q(1, 4), I(2), Q(15, 4), I(9)}
BoundaryYs == {I(-4), Q(1, 4), One, Q(11, 4), I(8)}
BoundaryVelocities == {Vec(I(3), I(-4)), Vec(I(-2), I(4)), VZero}
BoundaryRestitutions == {Zero, Q(1, 2), One}
BoundaryAccs == {<<>>, <<VZero>>, <<Vec(Zero, I(-7))>>}

BoundaryInit ==
    /\ bodies = <<>>
    /\ drag = NoDrag
    /\ \E x \in BoundaryXs, y \in BoundaryYs, vel \in BoundaryVelocities,
          radius \in BoundaryRadii, e \in BoundaryRestitutions,
          acc \in BoundaryAccs :
          /\ collideBoundaryExact(Vec(x, y), vel, radius, acc)
          /\ inputs = [pos |-> Vec(x, y), vel |-> vel, radius |-> radius,
                       restitution |-> e, acc |-> acc]
    /\ scene = [name |-> "collideBoundary"]
    /\ canvas = [height |-> I(600)]
    /\ obs = [op |-> "load"]
    /\ frames = 0

BoundaryCollide ==
    /\ obs.op = "load"
    /\ obs' = [op |-> "collideBoundary", pos |-> inputs.pos, vel |-> inputs.vel,
               radius |-> inputs.radius, restitution |-> inputs.restitution,
               acc |-> inputs.acc,
               ret |-> collideBoundary(inputs.pos, inputs.vel, BoundaryBounds,
                                       inputs.radius, inputs.restitution,
                                       inputs.acc)]
    /\ UNCHANGED <<bodies, drag, inputs, scene, canvas, frames>>

BoundaryNext == BoundaryCollide

SpecBoundary == BoundaryInit /\ [][BoundaryNext]_vars

\* C18: for bounds with w >= 2*radius and h >= 2*radius and restitution in
\* [0,1], collideBoundary returns a position with radius <= x <= w - radius
\* and radius <= y <= h - radius for every input position, a velocity whose
\* component on a hit axis points away from the wall that was hit (or is
\* zero) and is not larger in magnitude than the incoming one, and leaves
\* the input vectors unmodified.
CollideBoundaryKeepsInside ==
    obs.op = "collideBoundary" =>
        LET r == obs.radius
            hitLeft == RLt(RSub(obs.pos.x, r), Zero)
            hitRight == ~hitLeft /\ RGt(RAdd(obs.pos.x, r), BoundaryBounds.w)
            hitCeiling == RGt(RAdd(obs.pos.y, r), BoundaryBounds.h)
            hitFloor == ~hitCeiling /\ RLt(RSub(obs.pos.y, r), Zero)
        IN  /\ RLe(r, obs.ret.pos.x)
            /\ RLe(obs.ret.pos.x, RSub(BoundaryBounds.w, r))
            /\ RLe(r, obs.ret.pos.y)
            /\ RLe(obs.ret.pos.y, RSub(BoundaryBounds.h, r))
            /\ hitLeft => RGe(obs.ret.vel.x, Zero)
            /\ hitRight => RLe(obs.ret.vel.x, Zero)
            /\ hitCeiling => RLe(obs.ret.vel.y, Zero)
            /\ hitFloor => RGe(obs.ret.vel.y, Zero)
            /\ RLe(RAbs(obs.ret.vel.x), RAbs(obs.vel.x))
            /\ RLe(RAbs(obs.ret.vel.y), RAbs(obs.vel.y))
            /\ obs.ret.args = [pos |-> obs.pos, vel |-> obs.vel]

\* the input position lies beyond no wall by more than the free span of the
\* box (w - 2*radius horizontally, h - 2*radius vertically)
WithinSpan(pos, r) ==
    /\ RLe(RSub(RMul(I(3), r), BoundaryBounds.w), pos.x)
    /\ RLe(pos.x, RSub(RMul(I(2), BoundaryBounds.w), RMul(I(3), r)))
    /\ RLe(RSub(RMul(I(3), r), BoundaryBounds.h), pos.y)
    /\ RLe(pos.y, RSub(RMul(I(2), BoundaryBounds.h), RMul(I(3), r)))

\* C18 (amended): the returned position is inside the box for every input
\* position that is beyond a wall by at most the free span of the box; for
\* every input position the returned velocity component on a hit axis
\* points away from the wall that was hit (or is zero) and is not larger in
\* magnitude than the incoming one, and the input vectors are unmodified.
CollideBoundaryKeepsInsideWithinSpan ==
    obs.op = "collideBoundary" =>
        LET r == obs.radius
            hitLeft == RLt(RSub(obs.pos.x, r), Zero)
            hitRight == ~hitLeft /\ RGt(RAdd(obs.pos.x, r), BoundaryBounds.w)
            hitCeiling == RGt(RAdd(obs.pos.y, r), BoundaryBounds.h)
            hitFloor == ~hitCeiling /\ RLt(RSub(obs.pos.y, r), Zero)
        IN  /\ WithinSpan(obs.pos, r)
                 => /\ RLe(r, obs.ret.pos.x)
                    /\ RLe(obs.ret.pos.x, RSub(BoundaryBounds.w, r))
                    /\ RLe(r, obs.ret.pos.y)
                    /\ RLe(obs.ret.pos.y, RSub(BoundaryBounds.h, r))
            /\ hitLeft => RGe(obs.ret.vel.x, Zero)
            /\ hitRight => RLe(obs.ret.vel.x, Zero)
            /\ hitCeiling => RLe(obs.ret.vel.y, Zero)
            /\ hitFloor => RGe(obs.ret.vel.y, Zero)
            /\ RLe(RAbs(obs.ret.vel.x), RAbs(obs.vel.x))
            /\ RLe(RAbs(obs.ret.vel.y), RAbs(obs.vel.y))
            /\ obs.ret.args = [pos |-> obs.pos, vel |-> obs.vel]

\* a ball past the left wall and the floor, within the span, moving into
\* both, bounces off the floor against gravity and off the wall
CollideBoundaryKeepsInsideWithinSpanWitness ==
    /\ obs.op = "collideBoundary"
    /\ WithinSpan(obs.pos, obs.radius)
    /\ RLt(RSub(obs.pos.x, obs.radius), Zero)
    /\ RLt(RSub(obs.pos.y, obs.radius), Zero)
    /\ obs.acc = <<Vec(Zero, I(-7))>>
    /\ RLt(obs.vel.x, Zero)
    /\ RGt(obs.ret.vel.x, Zero)
    /\ RGt(obs.ret.vel.y, Zero)
    /\ obs.ret.pos # obs.pos

====
